---- MODULE Spec2Model ----
(***************************************************************************)
(* Grinfi MCP server: the HTTP binding (session table, authorization), the *)
(* request forwarder grinfiRequest and the get_unread_conversations tool.  *)
(*                                                                         *)
(* Strings the code inspects character by character (request URL,          *)
(* Authorization header, MCP_API_KEY) are sequences of one-character       *)
(* strings.  Sessions ids, McpServer instances and transports are numbered *)
(* in creation order; 0 stands for `undefined`.                            *)
(***************************************************************************)
EXTENDS Integers, Sequences, FiniteSets, TLC

VARIABLES
    variant,     \* "path": http-server.ts 1..1730; "bearer": http-server.ts 1732..2412
    mcpKey,      \* process.env.MCP_API_KEY
    listening,   \* the process is alive and the listener accepts requests
    sessions,    \* the `sessions` Map: session id -> {transport, server}
    transports,  \* every StreamableHTTPServerTransport constructed so far
    nServers,    \* number of McpServer instances constructed so far
    inflight,    \* request handlers suspended at an await
    last,        \* the request handler invocation that finished most recently
    apiKey,      \* process.env.GRINFI_API_KEY
    tool,        \* the running tool handler: its position and local variables
    net,         \* upstream requests on the wire (fetch promises pending)
    log,         \* the grinfiRequest calls of the current tool invocation
    outcome,     \* what the last tool invocation returned or threw
    others,      \* the tool handlers still pending that were called before the last
    enriched,    \* a value handed to enrichResult, and what became of it
    query        \* the arguments of a buildQuery call and what it returned

httpVars == <<variant, mcpKey, listening, sessions, transports, nServers, inflight, last>>

toolVars == <<apiKey, tool, net, log, outcome, others>>

vars == <<httpVars, toolVars, enriched, query>>

----------------------------------------------------------------------------
(* Bounds of the model.                                                    *)

MaxInflight == 2     \* request handlers suspended at the same time
MaxTransports == 2   \* transports constructed in one run
MaxMsgs == 3         \* messages in one answer to the list request
MaxCounts == 2       \* unread counters of one contact
MaxApply == 2        \* applications of enrichResult to one value
MaxOthers == 1       \* tool handlers pending besides the one called last

----------------------------------------------------------------------------
(* Character strings.                                                      *)

\* The class [a-zA-Z0-9].
AlnumChars ==
    {"a", "b", "c", "d", "e", "f", "g", "h", "i", "j", "k", "l", "m",
     "n", "o", "p", "q", "r", "s", "t", "u", "v", "w", "x", "y", "z",
     "A", "B", "C", "D", "E", "F", "G", "H", "I", "J", "K", "L", "M",
     "N", "O", "P", "Q", "R", "S", "T", "U", "V", "W", "X", "Y", "Z",
     "0", "1", "2", "3", "4", "5", "6", "7", "8", "9"}

IsAlnum(c) == c \in AlnumChars

RECURSIVE SeqsUpTo(_, _)
SeqsUpTo(S, n) ==
    IF n = 0 THEN {<<>>}
    ELSE LET shorter == SeqsUpTo(S, n - 1)
         IN  shorter \cup {Append(s, c) : s \in shorter, c \in S}

HealthUrl == <<"/", "h", "e", "a", "l", "t", "h">>
McpUrl == <<"/", "m", "c", "p">>
McpSlash == <<"/", "m", "c", "p", "/">>
OtherUrl == <<"/", "x">>
BearerPrefix == <<"B", "e", "a", "r", "e", "r", " ">>

StartsWith(s, p) == Len(s) >= Len(p) /\ SubSeq(s, 1, Len(p)) = p

\* The longest prefix of s made of alphanumeric characters: what the group
\* ([a-zA-Z0-9]+) of the pattern captures when it is anchored at s.
RECURSIVE AlnumRun(_)
AlnumRun(s) ==
    IF s = <<>> \/ ~IsAlnum(Head(s)) THEN <<>>
    ELSE <<Head(s)>> \o AlnumRun(Tail(s))

\* An environment variable or a header: absent (undefined) or a string.
Undefined == [present |-> FALSE, value |-> <<>>]
Val(s) == [present |-> TRUE, value |-> s]

\* JavaScript truthiness of a string | undefined.
Truthy(v) == v.present /\ v.value # <<>>

----------------------------------------------------------------------------
(* HTTP binding: authorization.                                            *)

Methods == {"GET", "POST", "DELETE"}

NoSid == 0        \* no mcp-session-id header
ForgedSid == -1   \* an id made up by a client: the generator never returns it

\* getMcpApiKey: throws when MCP_API_KEY is unset or empty.
getMcpApiKey == [threw |-> ~Truthy(mcpKey), key |-> mcpKey.value]

NoAuth == [threw |-> FALSE, authorized |-> FALSE, mcpPath |-> FALSE]

\* The mutant of extractAuth: any bearer value is accepted on /mcp.
extractAuthAnyBearer(url, authHeader) ==
    LET k == getMcpApiKey
        urlMatch == IF StartsWith(url, McpSlash)
                    THEN AlnumRun(SubSeq(url, Len(McpSlash) + 1, Len(url)))
                    ELSE <<>>
    IN  IF k.threw THEN [NoAuth EXCEPT !.threw = TRUE]
        ELSE IF urlMatch # <<>>
             THEN [threw |-> FALSE, authorized |-> urlMatch = k.key, mcpPath |-> TRUE]
        ELSE IF url = McpUrl
             THEN [threw |-> FALSE, authorized |-> Truthy(authHeader), mcpPath |-> TRUE]
        ELSE NoAuth

\* The mutant of extractAuth: the path is matched when it goes on after the
\* secret, whatever follows.
extractAuthPrefix(url, authHeader) ==
    LET k == getMcpApiKey
        rest == IF StartsWith(url, McpSlash)
                THEN SubSeq(url, Len(McpSlash) + 1, Len(url))
                ELSE <<>>
    IN  IF k.threw THEN [NoAuth EXCEPT !.threw = TRUE]
        ELSE IF AlnumRun(rest) # <<>>
             THEN [threw |-> FALSE, authorized |-> StartsWith(rest, k.key), mcpPath |-> TRUE]
        ELSE IF url = McpUrl
             THEN [threw |-> FALSE,
                   authorized |-> Truthy(authHeader)
                                  /\ authHeader.value = BearerPrefix \o k.key,
                   mcpPath |-> TRUE]
        ELSE NoAuth

\* extractAuth of the path-secret variant.
extractAuth(url, authHeader) ==
    LET k == getMcpApiKey
        urlMatch == IF StartsWith(url, McpSlash)
                    THEN AlnumRun(SubSeq(url, Len(McpSlash) + 1, Len(url)))
                    ELSE <<>>
    IN  IF k.threw THEN [NoAuth EXCEPT !.threw = TRUE]
        ELSE IF urlMatch # <<>>
             THEN [threw |-> FALSE, authorized |-> urlMatch = k.key, mcpPath |-> TRUE]
        ELSE IF url = McpUrl
             THEN [threw |-> FALSE,
                   authorized |-> Truthy(authHeader)
                                  /\ authHeader.value = BearerPrefix \o k.key,
                   mcpPath |-> TRUE]
        ELSE NoAuth

\* The path and bearer checks of the bearer variant, in the handler itself.
bearerAuth(url, authHeader) ==
    IF url # McpUrl THEN NoAuth
    ELSE LET k == getMcpApiKey
         IN  IF k.threw THEN [NoAuth EXCEPT !.threw = TRUE]
             ELSE [threw |-> FALSE,
                   authorized |-> ~(~Truthy(authHeader)
                                    \/ authHeader.value # BearerPrefix \o k.key),
                   mcpPath |-> TRUE]

Auth(url, authHeader) ==
    IF variant = "path" THEN extractAuth(url, authHeader) ELSE bearerAuth(url, authHeader)

----------------------------------------------------------------------------
(* What a request carries, stated without the handler's code: the facts    *)
(* the properties below speak about.                                       *)

\* The request is addressed to the MCP endpoint.
OnMcpPath(url) ==
    \/ url = McpUrl
    \/ /\ variant = "path"
       /\ Len(url) > Len(McpSlash)
       /\ StartsWith(url, McpSlash)
       /\ IsAlnum(url[Len(McpSlash) + 1])

\* The request presents the configured secret, as a bearer value or as the
\* path segment after /mcp/ (a word of letters and digits, ended by the end
\* of the URL or by any other character).
PresentsSecret(url, authHeader) ==
    /\ Truthy(mcpKey)
    /\ \/ url = McpUrl /\ authHeader = Val(BearerPrefix \o mcpKey.value)
       \/ /\ variant = "path"
          /\ \A j \in DOMAIN mcpKey.value : IsAlnum(mcpKey.value[j])
          /\ StartsWith(url, McpSlash \o mcpKey.value)
          /\ LET n == Len(McpSlash) + Len(mcpKey.value)
             IN  Len(url) = n \/ ~IsAlnum(url[n + 1])

----------------------------------------------------------------------------
(* HTTP binding: the request handler.                                      *)

Handler == [pc |-> "entry", method |-> "", sid |-> NoSid, tgt |-> 0, known |-> FALSE,
         presents |-> FALSE, ops |-> {}, built |-> FALSE]

\* kind: "resp" (a response was written), "escaped" (the handler's promise
\* rejected); sid: the mcp-session-id of a request that reached a transport;
\* known: the id it carried was in the table on arrival; ops: the operations
\* it performed on the table; built: it constructed a registry and transport;
\* url: the URL of a request the handler answered without suspending.
NoLast == [kind |-> "none", status |-> 0, method |-> "", sid |-> NoSid,
           known |-> FALSE, onMcp |-> FALSE, presents |-> FALSE, ops |-> {},
           built |-> FALSE, failed |-> FALSE, health |-> FALSE, body |-> "", url |-> << >>]

\* Ids the generator has handed out so far.
Generated == {transports[t].sessionId : t \in DOMAIN transports} \ {NoSid}

\* The mutant of randomUUID: ids are numbered by the sessions that are open.
randomUUIDOfOpen == Cardinality(DOMAIN sessions) + 1

\* crypto.randomUUID(): an id never seen before.
randomUUID == Cardinality(Generated) + 1

\* The mutant of createMcpServer: one registry shared by every session.
createMcpServerShared == IF nServers = 0 THEN 1 ELSE nServers

\* createMcpServer: a new McpServer instance on every call.
createMcpServer == nServers + 1

McpKeys == {Undefined, Val(<<>>), Val(<<"a">>), Val(<<"a", "-">>)}

\* Request URLs: /health, an unknown path, /mcp, and /mcp/ followed by nothing,
\* by the secret, by another word, by a longer word and by the secret and more.
ReqUrls == {HealthUrl, OtherUrl, McpUrl}
           \cup {McpSlash \o s : s \in {<<>>, <<"a">>, <<"b">>, <<"a", "b">>,
                                        <<"a", "-">>}}

ReqAuths == {Undefined, Val(BearerPrefix \o <<"a">>), Val(BearerPrefix \o <<"b">>),
             Val(BearerPrefix \o <<"a", "-">>)}

\* Session ids a client can send: none, a made-up one, or one a server
\* response has disclosed.
ReqSids == {NoSid, ForgedSid} \cup Generated

\* No tool handler is running, nothing was returned.
\* limit: params.limit while the query built from it is on its way; unset: the
\* names under which the optional parameters left unset (those without a
\* documented default) would travel, while the request is on its way; body: the
\* body a handler built for a DELETE.
NoTool == [name |-> "none", pc |-> "idle", leads |-> <<>>, idx |-> 0,
           unreadConversations |-> <<>>, scanned |-> 0, total |-> [t |-> "undefined"],
           limit |-> [t |-> "none"], unset |-> {}, body |-> [t |-> "undefined"]]
NoOutcome == [kind |-> "none", data |-> [t |-> "undefined"], text |-> <<>>,
              error |-> [kind |-> "none", status |-> 0, text |-> <<>>]]

\* enrichResult was not called.
NoEnrich == [original |-> [t |-> "undefined"], previous |-> [t |-> "undefined"],
             current |-> [t |-> "undefined"], applied |-> 0, threw |-> FALSE]

\* buildQuery was not called.
NoQuery == [params |-> << >>, filterFields |-> << >>, result |-> << >>, applied |-> FALSE]

ToolIdle ==
    /\ enriched = NoEnrich
    /\ query = NoQuery
    /\ tool = NoTool
    /\ net = << >>
    /\ log = << >>
    /\ outcome = NoOutcome
    /\ others = << >>

HttpInit ==
    /\ apiKey = Val(<<"k">>)
    /\ ToolIdle
    /\ variant \in {"path", "bearer"}
    /\ mcpKey \in McpKeys
    /\ listening = TRUE
    /\ sessions = << >>
    /\ transports = << >>
    /\ nServers = 0
    /\ inflight = << >>
    /\ last = NoLast

\* The handler ran to a response without suspending.
Answer(status, body, method, sid, url, auth, ops) ==
    /\ last' = [NoLast EXCEPT !.kind = "resp", !.status = status, !.method = method,
                              !.body = body, !.url = url,
                              !.health = (url = HealthUrl /\ method = "GET"),
                              !.known = sid \in DOMAIN sessions,
                              !.onMcp = OnMcpPath(url),
                              !.presents = PresentsSecret(url, auth), !.ops = ops]
    /\ UNCHANGED <<variant, mcpKey, listening, sessions, transports, nServers, inflight>>

\* An exception left the async handler: nothing is written to the response.
\* Node ends the process on an unhandled rejection unless it was started
\* with --unhandled-rejections=warn or none.
Escape(method, sid, url, auth) ==
    /\ last' = [NoLast EXCEPT !.kind = "escaped", !.method = method, !.url = url,
                              !.known = sid \in DOMAIN sessions,
                              !.onMcp = OnMcpPath(url),
                              !.presents = PresentsSecret(url, auth), !.failed = TRUE]
    /\ listening' \in BOOLEAN
    /\ UNCHANGED <<variant, mcpKey, sessions, transports, nServers, inflight>>

\* The mutant of DeleteUnknown: a DELETE for no session is a success.
DeleteUnknownSucceeds(method, sid, url, auth) ==
    Answer(200, "success", method, sid, url, auth, IF sid # NoSid THEN {"has"} ELSE {})

\* The else of the DELETE branch: no session id, or one not in the table.
DeleteUnknown(method, sid, url, auth) ==
    Answer(404, "Session not found", method, sid, url, auth,
           IF sid # NoSid THEN {"has"} ELSE {})

\* The handler from its entry to its first await (or to its return).
Receive(url, method, auth, sid) ==
    /\ listening
    /\ UNCHANGED <<toolVars, enriched, query>>
    /\ Len(inflight) < MaxInflight
    /\ IF url = HealthUrl /\ method = "GET"
       THEN Answer(200, "ok", method, sid, url, auth, {})
       ELSE LET a == Auth(url, auth)
                me == [Handler EXCEPT !.method = method, !.sid = sid,
                                   !.known = sid \in DOMAIN sessions,
                                   !.presents = PresentsSecret(url, auth)]
            IN  IF a.threw THEN Escape(method, sid, url, auth)
                ELSE IF ~a.mcpPath THEN Answer(404, "Not found", method, sid, url, auth, {})
                ELSE IF ~a.authorized THEN Answer(401, "Unauthorized", method, sid, url, auth, {})
                ELSE IF sid # NoSid /\ sid \in DOMAIN sessions
                THEN \* existing session: await session.transport.handleRequest
                     /\ inflight' = Append(inflight,
                            [me EXCEPT !.pc = "existing", !.tgt = sessions[sid].transport,
                                       !.ops = {"has", "get"}])
                     /\ UNCHANGED <<variant, mcpKey, listening, sessions, transports,
                                    nServers, last>>
                ELSE IF method = "DELETE"
                THEN IF sid # NoSid /\ sid \in DOMAIN sessions
                     THEN \* await session.server.close()
                          /\ inflight' = Append(inflight,
                                 [me EXCEPT !.pc = "closing",
                                            !.tgt = sessions[sid].transport,
                                            !.ops = {"has", "get"}])
                          /\ UNCHANGED <<variant, mcpKey, listening, sessions,
                                         transports, nServers, last>>
                     ELSE DeleteUnknown(method, sid, url, auth)
                ELSE \* new session: createMcpServer, new transport, await connect
                     /\ Len(transports) < MaxTransports
                     /\ LET mcpServer == createMcpServer
                        IN  /\ nServers' = IF mcpServer > nServers THEN mcpServer
                                           ELSE nServers
                            /\ transports' = Append(transports,
                                   [server |-> mcpServer, sessionId |-> NoSid,
                                    closed |-> FALSE])
                            /\ inflight' = Append(inflight,
                                   [me EXCEPT !.pc = "connect",
                                              !.tgt = Len(transports) + 1,
                                              !.ops = IF sid # NoSid THEN {"has"} ELSE {},
                                              !.built = TRUE])
                     /\ UNCHANGED <<variant, mcpKey, listening, sessions, last>>

\* The handler returns after its last await.
Finish(slot, status, ops, failed) ==
    /\ last' = [NoLast EXCEPT !.kind = "resp", !.status = status,
                              !.method = inflight[slot].method,
                              !.sid = inflight[slot].sid,
                              !.known = inflight[slot].known,
                              !.onMcp = TRUE,
                              !.presents = inflight[slot].presents,
                              !.ops = inflight[slot].ops \cup ops,
                              !.built = inflight[slot].built,
                              !.failed = failed,
                              !.body = IF failed /\ status = 500
                                       THEN "Internal server error"
                                       ELSE IF inflight[slot].pc = "closing"
                                       THEN "success"
                                       ELSE ""]
    /\ inflight' = [i \in 1..(Len(inflight) - 1) |->
                        IF i < slot THEN inflight[i] ELSE inflight[i + 1]]

\* transport.onclose: sessions.delete(transport.sessionId) when it has one.
onclose(t) ==
    IF transports[t].sessionId # NoSid
    THEN [s \in DOMAIN sessions \ {transports[t].sessionId} |-> sessions[s]]
    ELSE sessions

\* `await mcpServer.connect(transport)` resumes, and handleRequest is called,
\* or it rejects and the catch answers 500 (nothing was written before);
\* `await session.server.close()` resumes and the DELETE branch deletes the
\* entry and answers 200, or it rejects, outside any try.
Resume(slot, rejects) ==
    /\ listening
    /\ slot \in DOMAIN inflight
    /\ inflight[slot].pc \in {"connect", "closing"}
    /\ UNCHANGED <<toolVars, enriched, query>>
    /\ IF inflight[slot].pc = "connect"
       THEN IF rejects
            THEN /\ Finish(slot, 500, {}, TRUE)
                 /\ UNCHANGED <<variant, mcpKey, listening, sessions, transports, nServers>>
            ELSE /\ inflight' = [inflight EXCEPT ![slot].pc = "handle"]
                 /\ UNCHANGED <<variant, mcpKey, listening, sessions, transports,
                                nServers, last>>
       ELSE IF rejects
            THEN /\ last' = [NoLast EXCEPT !.kind = "escaped",
                                           !.method = inflight[slot].method,
                                           !.sid = inflight[slot].sid,
                                           !.known = inflight[slot].known,
                                           !.onMcp = TRUE,
                                           !.presents = inflight[slot].presents,
                                           !.ops = inflight[slot].ops,
                                           !.failed = TRUE]
                 /\ inflight' = [i \in 1..(Len(inflight) - 1) |->
                                     IF i < slot THEN inflight[i] ELSE inflight[i + 1]]
                 /\ listening' \in BOOLEAN
                 /\ UNCHANGED <<variant, mcpKey, sessions, transports, nServers>>
            ELSE /\ sessions' = [s \in DOMAIN sessions \ {inflight[slot].sid} |-> sessions[s]]
                 /\ Finish(slot, 200, {"delete"}, FALSE)
                 /\ UNCHANGED <<variant, mcpKey, listening, transports, nServers>>

\* `await transport.handleRequest(req, res)` resumes.  The transport is the
\* SDK's: it answers the request itself.  An initialize POST on a fresh
\* transport generates the session id and calls onsessioninitialized, any
\* other request on a fresh transport leaves the table as it is; a DELETE it
\* accepts closes the transport, which calls onclose; it may refuse a request
\* with a 4xx of its own, or throw, before or after it wrote a status.
TransportOk(slot) ==
    /\ listening
    /\ slot \in DOMAIN inflight
    /\ inflight[slot].pc \in {"existing", "handle"}
    /\ UNCHANGED <<toolVars, enriched, query>>
    /\ LET t == inflight[slot].tgt
           r == inflight[slot]
       IN  IF transports[t].sessionId = NoSid /\ r.method # "POST"
           THEN /\ Finish(slot, 200, {}, FALSE)
                /\ UNCHANGED <<sessions, transports>>
           ELSE IF transports[t].sessionId = NoSid
           THEN \* initialize: onsessioninitialized(newSessionId)
                /\ LET newSessionId == randomUUID
                   IN  /\ transports' = [transports EXCEPT ![t].sessionId = newSessionId]
                       /\ sessions' = [s \in DOMAIN sessions \cup {newSessionId} |->
                              IF s = newSessionId
                              THEN [transport |-> t, server |-> transports[t].server]
                              ELSE sessions[s]]
                /\ Finish(slot, 200, {"set"}, FALSE)
           ELSE IF r.method = "DELETE"
           THEN /\ transports' = [transports EXCEPT ![t].closed = TRUE]
                /\ sessions' = onclose(t)
                /\ Finish(slot, 200, {"delete"}, FALSE)
           ELSE /\ Finish(slot, 200, {}, FALSE)
                /\ UNCHANGED <<sessions, transports>>
    /\ UNCHANGED <<variant, mcpKey, listening, nServers>>

TransportRefuses(slot) ==
    /\ listening
    /\ slot \in DOMAIN inflight
    /\ inflight[slot].pc \in {"existing", "handle"}
    /\ UNCHANGED <<toolVars, enriched, query>>
    /\ Finish(slot, 400, {}, FALSE)
    /\ UNCHANGED <<variant, mcpKey, listening, sessions, transports, nServers>>

\* handleRequest throws: the catch answers 500 unless the headers are out,
\* with the status the transport wrote.
TransportThrows(slot, headersSent, written) ==
    /\ listening
    /\ slot \in DOMAIN inflight
    /\ inflight[slot].pc \in {"existing", "handle"}
    /\ UNCHANGED <<toolVars, enriched, query>>
    /\ Finish(slot, IF headersSent THEN written ELSE 500, {}, TRUE)
    /\ UNCHANGED <<variant, mcpKey, listening, sessions, transports, nServers>>

HttpNext ==
    \/ \E url \in ReqUrls, method \in Methods, auth \in ReqAuths, sid \in ReqSids :
          Receive(url, method, auth, sid)
    \/ \E slot \in 1..MaxInflight, rejects \in BOOLEAN : Resume(slot, rejects)
    \/ \E slot \in 1..MaxInflight : TransportOk(slot)
    \/ \E slot \in 1..MaxInflight : TransportRefuses(slot)
    \/ \E slot \in 1..MaxInflight, headersSent \in BOOLEAN :
          \E written \in IF headersSent THEN {200, 400} ELSE {500} :
              TransportThrows(slot, headersSent, written)

SpecHttp == HttpInit /\ [][HttpNext]_vars

----------------------------------------------------------------------------
(* JSON.  A text is a sequence of tokens (white space is not modelled); a  *)
(* value is a record tagged with its type.  An object is the sequence of   *)
(* its members in insertion order.                                         *)

P(c) == [k |-> "p", s |-> c]   \* one of { } [ ] , :
W(w) == [k |-> "w", s |-> w]   \* a bare word: null, true, false, or anything else
S(x) == [k |-> "s", s |-> x]   \* a string literal
N(i) == [k |-> "n", n |-> i]   \* a number literal

JUndef == [t |-> "undefined"]  \* JavaScript undefined: not a JSON value
JNull == [t |-> "null"]
JBool(b) == [t |-> "bool", b |-> b]
JNum(n) == [t |-> "num", n |-> n]
JStr(x) == [t |-> "str", s |-> x]
JArr(a) == [t |-> "arr", a |-> a]
JObj(o) == [t |-> "obj", o |-> o]

Member(key, v) == [k |-> key, v |-> v]

WhiteSpaceChars == {" ", "\t", "\n", "\r", "\f"}

\* The one element of a set of one element.
The(singleton) == CHOOSE e \in singleton : TRUE

Char(s, i) == SubSeq(s, i, i)

\* Every character of s is one of the characters of alphabet.
Within(s, alphabet) ==
    \A i \in 1..Len(s) : \E j \in 1..Len(alphabet) : Char(alphabet, j) = Char(s, i)

\* Where the first of the characters chars stands in s; 0 when none does.
IndexOf(s, chars) ==
    LET at == { i \in 1..Len(s) : Char(s, i) \in chars }
    IN  IF at = {} THEN 0 ELSE CHOOSE i \in at : \A j \in at : i <= j

\* The first n characters of s, or all of s when it has fewer.
Prefix(s, n) == IF Len(s) <= n THEN s ELSE SubSeq(s, 1, n)

\* s without the white space at its ends
Trim(s) ==
    LET kept == { i \in 1..Len(s) : Char(s, i) \notin WhiteSpaceChars }
    IN  IF kept = {} THEN ""
        ELSE SubSeq(s, CHOOSE i \in kept : \A j \in kept : i <= j,
                       CHOOSE i \in kept : \A j \in kept : i >= j)

DigitChars == <<"0", "1", "2", "3", "4", "5", "6", "7", "8", "9">>

\* The key is an integer index in its canonical form ("0", "1", "10"): the
\* keys an object enumerates first, in ascending order.
\* a < b for two strings of digits without leading zeros.
IndexLess(a, b) ==
    LET digit(key, i) == CHOOSE d \in DOMAIN DigitChars : DigitChars[d] = SubSeq(key, i, i)
    IN  \/ Len(a) < Len(b)
        \/ /\ Len(a) = Len(b)
           /\ \E i \in 1..Len(a) : /\ digit(a, i) < digit(b, i)
                                   /\ SubSeq(a, 1, i - 1) = SubSeq(b, 1, i - 1)

\* The key is an integer index in its canonical form ("0", "1", "10", up to
\* 2^32 - 2): the keys an object enumerates first, in ascending order.
IsIndexKey(key) ==
    /\ key # ""
    /\ \A i \in 1..Len(key) : \E d \in DOMAIN DigitChars : DigitChars[d] = SubSeq(key, i, i)
    /\ Len(key) > 1 => SubSeq(key, 1, 1) # "0"
    /\ IndexLess(key, "4294967295")

\* obj[key] = v on the member list o, in the order the object enumerates its
\* members: an existing key keeps its place, a new index key goes before the
\* greater index keys and the other keys, any other new key goes last.
PutMember(o, key, v) ==
    IF \E i \in DOMAIN o : o[i].k = key
    THEN [i \in DOMAIN o |-> IF o[i].k = key THEN Member(key, v) ELSE o[i]]
    ELSE LET insert(n) == SubSeq(o, 1, n) \o <<Member(key, v)>> \o SubSeq(o, n + 1, Len(o))
         IN  insert(IF ~IsIndexKey(key) THEN Len(o)
                    ELSE Cardinality({ i \in DOMAIN o :
                                          IsIndexKey(o[i].k) /\ IndexLess(o[i].k, key) }))

ParseFail == [ok |-> FALSE, v |-> JUndef, rest |-> <<>>]
Parsed(v, rest) == [ok |-> TRUE, v |-> v, rest |-> rest]

RECURSIVE ParseValue(_), ParseElements(_, _), ParseMembers(_, _)

\* One JSON value at the head of ts.
ParseValue(ts) ==
    IF ts = <<>> THEN ParseFail
    ELSE LET h == Head(ts)
             r == Tail(ts)
         IN  CASE h.k = "w" ->
                    IF h.s = "null" THEN Parsed(JNull, r)
                    ELSE IF h.s = "true" THEN Parsed(JBool(TRUE), r)
                    ELSE IF h.s = "false" THEN Parsed(JBool(FALSE), r)
                    ELSE ParseFail
               [] h.k = "n" -> Parsed(JNum(h.n), r)
               [] h.k = "s" -> Parsed(JStr(h.s), r)
               [] OTHER ->
                    IF h.s = "["
                    THEN IF r # <<>> /\ Head(r) = P("]")
                         THEN Parsed(JArr(<<>>), Tail(r))
                         ELSE ParseElements(r, <<>>)
                    ELSE IF h.s = "{"
                    THEN IF r # <<>> /\ Head(r) = P("}")
                         THEN Parsed(JObj(<<>>), Tail(r))
                         ELSE ParseMembers(r, <<>>)
                    ELSE ParseFail

\* value ("," value)* "]" after the elements acc.
ParseElements(ts, acc) ==
    LET e == ParseValue(ts)
    IN  IF ~e.ok \/ e.rest = <<>> THEN ParseFail
        ELSE IF Head(e.rest) = P(",")
             THEN ParseElements(Tail(e.rest), Append(acc, e.v))
        ELSE IF Head(e.rest) = P("]")
             THEN Parsed(JArr(Append(acc, e.v)), Tail(e.rest))
        ELSE ParseFail

\* string ":" value ("," string ":" value)* "}" after the members acc.
ParseMembers(ts, acc) ==
    IF Len(ts) < 2 \/ ts[1].k # "s" \/ ts[2] # P(":") THEN ParseFail
    ELSE LET e == ParseValue(SubSeq(ts, 3, Len(ts)))
         IN  IF ~e.ok \/ e.rest = <<>> THEN ParseFail
             ELSE IF Head(e.rest) = P(",")
                  THEN ParseMembers(Tail(e.rest), PutMember(acc, ts[1].s, e.v))
             ELSE IF Head(e.rest) = P("}")
                  THEN Parsed(JObj(PutMember(acc, ts[1].s, e.v)), Tail(e.rest))
             ELSE ParseFail

\* JSON.parse(text): throws unless the whole text is one value.
JSONParse(text) ==
    LET parsed(r) ==
            IF r.ok /\ r.rest = <<>> THEN [threw |-> FALSE, v |-> r.v]
            ELSE [threw |-> TRUE, v |-> JUndef]
    IN  parsed(ParseValue(text))

RECURSIVE Stringify(_), StringifyElements(_, _), StringifyMembers(_, _)

\* JSON.stringify(v) for v other than undefined.
Stringify(v) ==
    CASE v.t = "null" -> <<W("null")>>
      [] v.t = "bool" -> <<W(IF v.b THEN "true" ELSE "false")>>
      [] v.t = "num" -> <<N(v.n)>>
      [] v.t = "str" -> <<S(v.s)>>
      [] v.t = "text" -> <<[k |-> "s", raw |-> v.raw]>>
      [] v.t = "arr" -> <<P("[")>> \o StringifyElements(v.a, 1) \o <<P("]")>>
      [] v.t = "obj" ->
            <<P("{")>>
            \o StringifyMembers(SelectSeq(v.o, LAMBDA m : m.v # JUndef), 1)
            \o <<P("}")>>

\* The elements a[i..]; an undefined element is written as null.
StringifyElements(a, i) ==
    IF i > Len(a) THEN <<>>
    ELSE (IF a[i] = JUndef THEN <<W("null")>> ELSE Stringify(a[i]))
         \o (IF i < Len(a) THEN <<P(",")>> ELSE <<>>)
         \o StringifyElements(a, i + 1)

\* The members o[i..]; members whose value is undefined were dropped.
StringifyMembers(o, i) ==
    IF i > Len(o) THEN <<>>
    ELSE <<S(o[i].k), P(":")>> \o Stringify(o[i].v)
         \o (IF i < Len(o) THEN <<P(",")>> ELSE <<>>)
         \o StringifyMembers(o, i + 1)

\* JavaScript truthiness of a value.
JTruthy(v) ==
    CASE v.t \in {"undefined", "null"} -> FALSE
      [] v.t = "bool" -> v.b
      [] v.t = "num" -> v.n # 0
      [] v.t = "str" -> v.s # ""
      [] v.t = "text" -> v.raw # <<>>
      [] OTHER -> TRUE

\* v[key] for v other than null and undefined (on which it throws); the
\* only own property of arrays and strings that the code reads is length.
Get(v, key) ==
    IF v.t = "obj"
    THEN IF \E i \in DOMAIN v.o : v.o[i].k = key
         THEN v.o[CHOOSE i \in DOMAIN v.o : v.o[i].k = key].v
         ELSE JUndef
    ELSE IF v.t = "arr" /\ key = "length" THEN JNum(Len(v.a))
    ELSE IF v.t = "str" /\ key = "length" THEN JNum(Len(v.s))
    ELSE JUndef

Nullish(v) == v.t \in {"undefined", "null"}

----------------------------------------------------------------------------
(* The request forwarder grinfiRequest.                                    *)

\* The mutant of getApiKey: the key is handed on unchecked.
getApiKeyUnchecked == [threw |-> FALSE, key |-> apiKey.value]

\* getApiKey: throws when GRINFI_API_KEY is unset or empty.
getApiKey == [threw |-> ~Truthy(apiKey), key |-> apiKey.value]

\* An Error and its message.  "api" is `Grinfi API error ${status}: ${text}`,
\* "config" the message of getApiKey, "network" the rejection of fetch, "type"
\* a TypeError raised by the handler's own code.
NoError == [kind |-> "none", status |-> 0, text |-> <<>>]
ConfigError == [kind |-> "config", status |-> 0, text |-> <<>>]
NetworkError == [kind |-> "network", status |-> 0, text |-> <<>>]
TypeError == [kind |-> "type", status |-> 0, text |-> <<>>]

\* What response.text() rejects with when the body stream breaks off.
StreamError == [kind |-> "stream", status |-> 0, text |-> <<>>]

\* The mutant of ApiError: the message names the status only.
ApiErrorNoBody(status, text) == [kind |-> "api", status |-> status, text |-> <<>>]

ApiError(status, text) == [kind |-> "api", status |-> status, text |-> text]

\* response.ok
Ok(status) == status >= 200 /\ status <= 299

\* The string value whose characters are the response text.
JText(text) == [t |-> "text", raw |-> text]

NoContent == JObj(<<Member("success", JBool(TRUE)),
                    Member("message",
                           JStr("Operation completed successfully (204 No Content)"))>>)

\* String(n) for an integer n.
RECURSIVE NumToStr(_)
NumToStr(n) ==
    IF n < 0 THEN <<"-">> \o NumToStr(-n)
    ELSE IF n < 10 THEN <<DigitChars[n + 1]>>
    ELSE NumToStr(n \div 10) \o <<DigitChars[(n % 10) + 1]>>

\* A query parameter; its value is a string or undefined.
Param(key, v) == [k |-> key, v |-> v]

\* The characters of a string, one by one.
Chars(s) == [i \in 1..Len(s) |-> Char(s, i)]

\* s without the characters of the set chars
RECURSIVE Without(_, _)
Without(s, chars) ==
    IF s = "" THEN ""
    ELSE (IF Char(s, 1) \in chars THEN "" ELSE Char(s, 1))
         \o Without(SubSeq(s, 2, Len(s)), chars)

\* s cut at every c
RECURSIVE SplitOn(_, _)
SplitOn(s, c) ==
    LET cut(i) ==
            IF i = 0 THEN <<s>>
            ELSE <<SubSeq(s, 1, i - 1)>> \o SplitOn(SubSeq(s, i + 1, Len(s)), c)
    IN  cut(IndexOf(s, {c}))

\* The printable characters of the codes 32..95 and 97..126 (the notation has
\* no literal for the character of code 96).
AsciiLow ==
    " !\"#$%&'()*+,-./0123456789:;<=>?@ABCDEFGHIJKLMNOPQRSTUVWXYZ[\\]^_"
AsciiHigh == "abcdefghijklmnopqrstuvwxyz{|}~"

\* The code of a character a string of this notation can hold.
CharCode(c) ==
    CASE c = "\t" -> 9
      [] c = "\n" -> 10
      [] c = "\f" -> 12
      [] c = "\r" -> 13
      [] IndexOf(AsciiLow, {c}) > 0 -> 31 + IndexOf(AsciiLow, {c})
      [] OTHER -> 96 + IndexOf(AsciiHigh, {c})

\* A string as the sequence of its code points: the form in which the names
\* and the values of a query are kept, since a query can hold characters
\* that no string of this notation holds.
Codes(s) == [i \in 1..Len(s) |-> CharCode(Char(s, i))]

HexDigits == "0123456789ABCDEF"

\* %XX for a character
PercentEncode(c) ==
    LET hex(code) == "%" \o Char(HexDigits, (code \div 16) + 1)
                         \o Char(HexDigits, (code % 16) + 1)
    IN  hex(CharCode(c))

\* The value of a hexadecimal digit.
HexValue(c) ==
    CHOOSE n \in 0..15 : Char("0123456789ABCDEF", n + 1) = c
                         \/ Char("0123456789abcdef", n + 1) = c

\* The byte of the escape %XX at the head of s; -1 when s does not begin
\* with an escape.
EscapedCode(s) ==
    IF Len(s) >= 3 /\ Char(s, 1) = "%" /\ Within(SubSeq(s, 2, 3), "0123456789ABCDEFabcdef")
    THEN 16 * HexValue(Char(s, 2)) + HexValue(Char(s, 3))
    ELSE -1

\* The bytes of a name or a value of a query string as its parser reads it:
\* "+" is a space, %XX is the byte XX, any other character is its own byte.
RECURSIVE PercentDecode(_)
PercentDecode(s) ==
    IF s = "" THEN <<>>
    ELSE The({ IF byte >= 0
               THEN <<byte>> \o PercentDecode(SubSeq(s, 4, Len(s)))
               ELSE <<IF Char(s, 1) = "+" THEN 32 ELSE CharCode(Char(s, 1))>>
                    \o PercentDecode(SubSeq(s, 2, Len(s))) :
               byte \in {EscapedCode(s)} })

\* The code point that stands for a byte sequence that is no UTF-8.
ReplacementCharacter == 65533

\* The code points the bytes from the i-th on decode to as UTF-8, when
\* `needed` more bytes, each within lower..upper at first, are to complete
\* the code point cp, of which `seen` bytes were read.  A byte that cannot
\* begin or continue a code point gives the replacement character, and a
\* byte that cannot continue one is read again as a first byte.
RECURSIVE UTF8Decode(_, _, _, _, _, _, _)
UTF8Decode(bytes, i, needed, seen, cp, lower, upper) ==
    IF i > Len(bytes) THEN (IF needed = 0 THEN <<>> ELSE <<ReplacementCharacter>>)
    ELSE LET b == bytes[i]
         IN  IF needed = 0
             THEN IF b <= 127 THEN <<b>> \o UTF8Decode(bytes, i + 1, 0, 0, 0, 128, 191)
                  ELSE IF b \in 194..223
                  THEN UTF8Decode(bytes, i + 1, 1, 0, b % 32, 128, 191)
                  ELSE IF b \in 224..239
                  THEN UTF8Decode(bytes, i + 1, 2, 0, b % 16,
                                  IF b = 224 THEN 160 ELSE 128,
                                  IF b = 237 THEN 159 ELSE 191)
                  ELSE IF b \in 240..244
                  THEN UTF8Decode(bytes, i + 1, 3, 0, b % 8,
                                  IF b = 240 THEN 144 ELSE 128,
                                  IF b = 244 THEN 143 ELSE 191)
                  ELSE <<ReplacementCharacter>>
                       \o UTF8Decode(bytes, i + 1, 0, 0, 0, 128, 191)
             ELSE IF b \notin lower..upper
             THEN <<ReplacementCharacter>> \o UTF8Decode(bytes, i, 0, 0, 0, 128, 191)
             ELSE IF seen + 1 = needed
             THEN <<64 * cp + (b % 64)>> \o UTF8Decode(bytes, i + 1, 0, 0, 0, 128, 191)
             ELSE UTF8Decode(bytes, i + 1, needed, seen + 1, 64 * cp + (b % 64), 128, 191)

\* A name or a value of a query string, decoded.
Decoded(s) == UTF8Decode(PercentDecode(s), 1, 0, 0, 0, 128, 191)

\* A name-value pair of a query string: the piece is cut at its first "=".
QueryPair(x) ==
    The({ IF eq = 0 THEN Param(Decoded(x), Val(<<>>))
          ELSE Param(Decoded(SubSeq(x, 1, eq - 1)),
                     Val(Decoded(SubSeq(x, eq + 1, Len(x))))) :
          eq \in {IndexOf(x, {"="})} })

\* The name-value pairs of a query string: it is cut at "&", and an empty
\* piece is no pair.
ParseQuery(raw) ==
    The({ [i \in DOMAIN pieces |-> QueryPair(pieces[i])] :
          pieces \in {SelectSeq(SplitOn(raw, "&"), LAMBDA x : x # "")} })

\* The characters the URL parser escapes in a path segment.
PathEncodeSet == {" ", "\"", "<", ">", "{", "}", "\f"}

SingleDot == {".", "%2e", "%2E"}
DoubleDot == {"..", ".%2e", ".%2E", "%2e.", "%2E.", "%2e%2e", "%2e%2E", "%2E%2e", "%2E%2E"}

\* The path segments after the segment buf ended, at a slash or at the end of
\* the path: a double dot takes the last segment away, a single dot adds
\* nothing, and either leaves an empty segment when it ends the path.
EndSegment(segs, buf, slash) ==
    LET rest == IF slash THEN <<>> ELSE <<"">>
    IN  IF buf \in DoubleDot
        THEN (IF segs = <<>> THEN <<>> ELSE SubSeq(segs, 1, Len(segs) - 1)) \o rest
        ELSE IF buf \in SingleDot THEN segs \o rest
        ELSE Append(segs, buf)

\* The segments of the path s from its i-th character on; "/" and "\" end a
\* segment.
RECURSIVE PathState(_, _, _, _)
PathState(s, i, segs, buf) ==
    IF i > Len(s) THEN EndSegment(segs, buf, FALSE)
    ELSE IF Char(s, i) \in {"/", "\\"}
    THEN PathState(s, i + 1, EndSegment(segs, buf, TRUE), "")
    ELSE PathState(s, i + 1, segs,
                   buf \o (IF Char(s, i) \in PathEncodeSet THEN PercentEncode(Char(s, i))
                           ELSE Char(s, i)))

\* "/" before each segment
RECURSIVE Pathname(_)
Pathname(segs) ==
    IF segs = <<>> THEN "" ELSE "/" \o Head(segs) \o Pathname(Tail(segs))

\* The URL of a path s without white space at the ends, tabs and line breaks.
ParsedURL(s) ==
    The({ [pathname |-> Pathname(PathState(IF cut = 0 THEN s ELSE SubSeq(s, 1, cut - 1),
                                           2, <<>>, "")),
           searchParams |->
               IF cut = 0 \/ Char(s, cut) = "#" THEN <<>>
               ELSE ParseQuery(SubSeq(s, cut + 1, IF hash = 0 THEN Len(s) ELSE hash - 1))] :
          cut \in {IndexOf(s, {"?", "#"})}, hash \in {IndexOf(s, {"#"})} })

\* new URL(path, BASE_URL) for a path that begins with "/" and a character
\* other than "/" and "\", as every path of a handler does: the path of the
\* URL and the pairs of its query.  White space at the ends, tabs and line
\* breaks are dropped; the path ends at the first "?" or "#", the query at
\* the first "#", and the fragment does not go on the wire.
URL(path) == The({ ParsedURL(s) : s \in {Without(Trim(path), {"\t", "\n", "\r"})} })

\* url.searchParams.set(key, value): the first pair of that name takes the
\* value and the others of that name go; without one, the pair is added last.
SearchSet(q, key, value) ==
    LET at == { i \in DOMAIN q : q[i].k = key }
        first == CHOOSE i \in at : \A j \in at : i <= j
        marked == [i \in DOMAIN q |->
                      [p |-> IF i = first THEN Param(key, value) ELSE q[i],
                       keep |-> q[i].k # key \/ i = first]]
        kept == SelectSeq(marked, LAMBDA m : m.keep)
    IN  IF at = {} THEN Append(q, Param(key, value))
        ELSE [i \in DOMAIN kept |-> kept[i].p]

\* The loop over Object.entries(queryParams) from the i-th entry on: an entry
\* that is undefined or empty is left out.  The pairs of the query hold
\* their names and values as code points.
RECURSIVE SearchSetAll(_, _, _)
SearchSetAll(q, queryParams, i) ==
    IF i > Len(queryParams) THEN q
    ELSE SearchSetAll(IF Truthy(queryParams[i].v)
                      THEN SearchSet(q, Codes(queryParams[i].k),
                                     Val([j \in DOMAIN queryParams[i].v.value |->
                                             CharCode(queryParams[i].v.value[j])]))
                      ELSE q,
                      queryParams, i + 1)

\* grinfiRequest from its entry to `await fetch`: the requests it puts on the
\* wire (fetch), or the error it throws before.  The request goes to the path
\* and the query of new URL(path, BASE_URL), the query with the parameters
\* set on it that are neither undefined nor empty; a body is sent with POST,
\* PUT and PATCH.
grinfiSend(method, path, body, queryParams) ==
    LET k == getApiKey
        request(url) ==
            [method |-> method,
             path |-> url.pathname,
             query |-> SearchSetAll(url.searchParams, queryParams, 1),
             authorization |-> BearerPrefix \o k.key,
             body |-> IF JTruthy(body) /\ method \in {"POST", "PUT", "PATCH"}
                      THEN Val(Stringify(body)) ELSE Undefined]
    IN  IF k.threw
        THEN [threw |-> TRUE, error |-> ConfigError, fetch |-> <<>>]
        ELSE [threw |-> FALSE, error |-> NoError,
              fetch |-> <<The({ request(url) : url \in {URL(path)} })>>]

\* The mutant of ParseBody: the SyntaxError of JSON.parse is not caught.
ParseBodyThrows(text) ==
    LET parsed(p) ==
            IF p.threw
            THEN [threw |-> TRUE, value |-> JUndef, error |-> TypeError]
            ELSE [threw |-> FALSE, value |-> p.v, error |-> NoError]
    IN  parsed(JSONParse(text))

\* try { return JSON.parse(text) } catch { return { rawResponse: text } }
ParseBody(text) ==
    LET parsed(p) ==
            IF p.threw
            THEN [threw |-> FALSE, value |-> JObj(<<Member("rawResponse", JText(text))>>),
                  error |-> NoError]
            ELSE [threw |-> FALSE, value |-> p.v, error |-> NoError]
    IN  parsed(JSONParse(text))

\* The mutant of grinfiReceive: a 204 is treated as any other 2xx.
grinfiReceiveParses204(req, status, text) ==
    IF ~Ok(status)
    THEN [done |-> TRUE, threw |-> TRUE, value |-> JUndef,
          error |-> ApiError(status, text), fetch |-> <<>>]
    ELSE LET returned(b) ==
                 [done |-> TRUE, threw |-> b.threw, value |-> b.value, error |-> b.error,
                  fetch |-> <<>>]
         IN  returned(ParseBody(text))

\* The mutant of grinfiReceive: a 5xx answer is retried.
grinfiReceiveRetry(req, status, text) ==
    IF status = 204
    THEN [done |-> TRUE, threw |-> FALSE, value |-> NoContent, error |-> NoError,
          fetch |-> <<>>]
    ELSE IF status >= 500
    THEN [done |-> FALSE, threw |-> FALSE, value |-> JUndef, error |-> NoError,
          fetch |-> <<req>>]
    ELSE IF ~Ok(status)
    THEN [done |-> TRUE, threw |-> TRUE, value |-> JUndef,
          error |-> ApiError(status, text), fetch |-> <<>>]
    ELSE LET returned(b) ==
                 [done |-> TRUE, threw |-> b.threw, value |-> b.value, error |-> b.error,
                  fetch |-> <<>>]
         IN  returned(ParseBody(text))

\* grinfiRequest after `await fetch` resolved with a response of this status
\* and, unless the status is 204, `await response.text()` resolved with text:
\* what it returns or throws, and the requests it puts on the wire again
\* (none).
grinfiReceive(req, status, text) ==
    IF status = 204
    THEN [done |-> TRUE, threw |-> FALSE, value |-> NoContent, error |-> NoError,
          fetch |-> <<>>]
    ELSE IF ~Ok(status)
    THEN [done |-> TRUE, threw |-> TRUE, value |-> JUndef,
          error |-> ApiError(status, text), fetch |-> <<>>]
    ELSE LET returned(b) ==
                 [done |-> TRUE, threw |-> b.threw, value |-> b.value, error |-> b.error,
                  fetch |-> <<>>]
         IN  returned(ParseBody(text))

\* No response yet; resp.src is what the upstream serialized into resp.text
\* (undefined when the text is no JSON document).
NoResp == [kind |-> "none", status |-> 0, text |-> <<>>, src |-> JUndef]

\* The credential is absent: GRINFI_API_KEY is unset or the empty string.
KeyAbsent == ~apiKey.present \/ apiKey.value = <<>>

\* The execution state of a tool invocation: the handler's position and
\* locals (tool), the requests on the wire (net), the record of every
\* grinfiRequest call of the invocation (log) and what the invocation
\* returned (outcome).
WithTool(st, t) == [st EXCEPT !.tool = t]

\* A call of grinfiRequest, up to its await.
Call(st, method, path, body, queryParams) ==
    LET c == Len(st.log) + 1
        sent(send) ==
            [st EXCEPT
                !.log = Append(@, [method |-> method, path |-> path, absent |-> KeyAbsent,
                                   fetches |-> Len(send.fetch), resp |-> NoResp,
                                   reading |-> <<>>,
                                   done |-> send.threw, threw |-> send.threw,
                                   value |-> JUndef, error |-> send.error]),
                !.net = @ \o [i \in DOMAIN send.fetch |->
                                 [call |-> c, req |-> send.fetch[i]]]]
    IN  sent(grinfiSend(method, path, body, queryParams))

RemoveAt(q, i) == [j \in 1..(Len(q) - 1) |-> IF j < i THEN q[j] ELSE q[j + 1]]

\* `await fetch` of the i-th request on the wire settles.  A rejection and a
\* 204 resume the grinfiRequest call to its end; after any other status the
\* call awaits response.text(): the request is off the wire and its body is
\* being read (log[c].reading).
Settle(st, i, resp) ==
    LET c == st.net[i].call
        over(r) ==
            [st EXCEPT
                !.log[c] = [@ EXCEPT !.resp = resp, !.done = r.done, !.threw = r.threw,
                                     !.value = r.value, !.error = r.error,
                                     !.fetches = @ + Len(r.fetch)],
                !.net = RemoveAt(@, i) \o [j \in DOMAIN r.fetch |->
                                              [call |-> c, req |-> r.fetch[j]]]]
    IN  IF resp.kind = "neterr"
        THEN over([done |-> TRUE, threw |-> TRUE, value |-> JUndef,
                   error |-> NetworkError, fetch |-> <<>>])
        ELSE IF resp.status = 204
        THEN over(grinfiReceive(st.net[i].req, resp.status, resp.text))
        ELSE [st EXCEPT
                 !.log[c] = [@ EXCEPT !.resp = [NoResp EXCEPT !.kind = "head",
                                                              !.status = resp.status],
                                      !.reading = <<st.net[i].req>>],
                 !.net = RemoveAt(@, i)]

\* `await response.text()` of call c resolves with the text of resp, and the
\* call runs to its end.
Read(st, c, resp) ==
    LET over(r) ==
            [st EXCEPT
                !.log[c] = [@ EXCEPT !.resp = resp, !.done = r.done, !.threw = r.threw,
                                     !.value = r.value, !.error = r.error,
                                     !.fetches = @ + Len(r.fetch), !.reading = <<>>],
                !.net = @ \o [j \in DOMAIN r.fetch |-> [call |-> c, req |-> r.fetch[j]]]]
    IN  over(grinfiReceive(st.log[c].reading[1], resp.status, resp.text))

\* `await response.text()` of call c rejects: the body stream broke off, and
\* the call throws what the stream threw.
ReadFails(st, c) ==
    [st EXCEPT
        !.log[c] = [@ EXCEPT !.resp = [@ EXCEPT !.kind = "cut"], !.done = TRUE,
                             !.threw = TRUE, !.error = StreamError, !.reading = <<>>]]

----------------------------------------------------------------------------
(* Tool handlers.                                                          *)

Cur == [tool |-> tool, net |-> net, log |-> log, outcome |-> outcome]

Commit(st) ==
    /\ tool' = st.tool
    /\ net' = st.net
    /\ log' = st.log
    /\ outcome' = st.outcome
    /\ others' = others

\* `${v}`, the conversion of v to a string: the string, or the TypeError it
\* throws.  An object that was parsed from JSON is "[object Object]" unless
\* it has a member of its own named toString: no member of such an object is
\* a function, so the conversion finds no method that gives a primitive and
\* throws.  An array is its elements joined by commas, with nothing for null
\* and undefined, and throws when the conversion of an element throws.
RECURSIVE TemplateStr(_), TemplateJoin(_, _)
TemplateStr(v) ==
    LET string(x) == [threw |-> FALSE, s |-> x]
    IN  CASE v.t = "str" -> string(v.s)
          [] v.t = "num" -> string(ToString(v.n))
          [] v.t = "bool" -> string(IF v.b THEN "true" ELSE "false")
          [] v.t = "obj" ->
                IF \E i \in DOMAIN v.o : v.o[i].k = "toString"
                THEN [threw |-> TRUE, s |-> ""]
                ELSE string("[object Object]")
          [] v.t = "arr" -> TemplateJoin(v.a, 1)
          [] OTHER -> string(v.t)                      \* "undefined", "null"

\* Array.prototype.join of the elements from the i-th on.
TemplateJoin(a, i) ==
    IF i > Len(a) THEN [threw |-> FALSE, s |-> ""]
    ELSE LET joined(e, rest) ==
                 IF e.threw \/ rest.threw THEN [threw |-> TRUE, s |-> ""]
                 ELSE [threw |-> FALSE,
                       s |-> (IF i > 1 THEN "," ELSE "") \o e.s \o rest.s]
         IN  joined(IF Nullish(a[i]) THEN [threw |-> FALSE, s |-> ""] ELSE TemplateStr(a[i]),
                    TemplateJoin(a, i + 1))

\* typeof v === "object" for a value that is not null
IsObject(v) == v.t \in {"obj", "arr"}

\* obj[key] = v; an array is given no properties by this code.
Put(obj, key, v) == JObj(PutMember(obj.o, key, v))

ContactUrl == "https://leadgen.grinfi.io/crm/contacts/"
LinkedinUrl == "https://www.linkedin.com/in/"

\* What a function that changes its argument in place has made of it: the
\* argument as it stands when the function returned (Done) or threw (Thrown).
Done(v) == [threw |-> FALSE, v |-> v]
Thrown(v) == [threw |-> TRUE, v |-> v]

\* lead[key] = `${prefix}${...}`, t the conversion of the value to a string
SetLink(lead, key, prefix, t) ==
    IF t.threw THEN Thrown(lead) ELSE Done(Put(lead, key, JStr(prefix \o t.s)))

\* The mutant of enrichLeadWithLinks: the contact URL is set without a look
\* at uuid.
enrichLeadWithLinksUnguarded(lead) ==
    IF lead.t = "obj"
    THEN SetLink(lead, "_grinfi_contact_url", ContactUrl, TemplateStr(Get(lead, "uuid")))
    ELSE Done(lead)

\* enrichLeadWithLinks(lead), lead an object or an array: the two fields are
\* set one after the other, and a conversion that throws ends the function
\* with what was set before.
enrichLeadWithLinks(lead) ==
    LET contact(uuid) ==
            IF JTruthy(uuid)
            THEN SetLink(lead, "_grinfi_contact_url", ContactUrl, TemplateStr(uuid))
            ELSE Done(lead)
        profile(r, linkedin) ==
            IF ~r.threw /\ JTruthy(linkedin)
            THEN SetLink(r.v, "_linkedin_url", LinkedinUrl, TemplateStr(linkedin))
            ELSE r
        second(r) == profile(r, Get(r.v, "linkedin"))
    IN  second(contact(Get(lead, "uuid")))

\* if (x.lead && typeof x.lead === "object") enrichLeadWithLinks(x.lead)
enrichNestedLead(x) ==
    LET inside(r) == [threw |-> r.threw, v |-> Put(x, "lead", r.v)]
        nested(lead) ==
            IF JTruthy(lead) /\ IsObject(lead) /\ x.t = "obj"
            THEN inside(enrichLeadWithLinks(lead))
            ELSE Done(x)
    IN  nested(Get(x, "lead"))

\* The body of the loop over obj.data for one item.
enrichItem(item) ==
    IF JTruthy(item) /\ IsObject(item)
    THEN LET flat(r) ==
                 IF ~r.threw /\ JTruthy(Get(r.v, "uuid")) /\ ~JTruthy(Get(r.v, "lead"))
                 THEN enrichLeadWithLinks(r.v)
                 ELSE r
         IN  flat(enrichNestedLead(item))
    ELSE Done(item)

\* for (const item of obj.data) from the i-th item on: the items as the loop
\* left them; it ends at the first item on which it throws.
RECURSIVE enrichItems(_, _)
enrichItems(items, i) ==
    IF i > Len(items) THEN Done(items)
    ELSE LET step(r) ==
                 IF r.threw THEN Thrown([items EXCEPT ![i] = r.v])
                 ELSE enrichItems([items EXCEPT ![i] = r.v], i + 1)
         IN  step(enrichItem(items[i]))

\* enrichResult(data); the objects are changed in place and data is returned,
\* unless a conversion threw on the way.
enrichResult(data) ==
    IF JTruthy(data) /\ IsObject(data)
    THEN LET inside(o1, q) == [threw |-> q.threw, v |-> Put(o1, "data", JArr(q.v))]
             page(r, items) ==
                 IF ~r.threw /\ items.t = "arr"
                 THEN inside(r.v, enrichItems(items.a, 1))
                 ELSE r
             second(r) == page(r, Get(r.v, "data"))
             third(r) ==
                 IF ~r.threw /\ JTruthy(Get(r.v, "uuid")) /\ JTruthy(Get(r.v, "name"))
                 THEN enrichLeadWithLinks(r.v)
                 ELSE r
         IN  third(second(enrichNestedLead(data)))
    ELSE Done(data)

\* jsonResult(data, enrich): the value serialized and the text of the one
\* content item, or the TypeError of enrichResult.
jsonResult(data, enrich) ==
    LET content(r) == [threw |-> r.threw, result |-> r.v,
                       text |-> IF r.threw THEN <<>> ELSE Stringify(r.v)]
    IN  content(IF enrich THEN enrichResult(data) ELSE Done(data))

\* The handler's promise rejects with e.
Throw(st, e) ==
    [st EXCEPT !.outcome = [kind |-> "error", data |-> JUndef, text |-> <<>>, error |-> e],
               !.tool = [NoTool EXCEPT !.name = st.tool.name, !.pc = "done"]]

\* The handler returns jsonResult(data, enrich), or rejects with what
\* jsonResult threw.
Return(st, data, enrich) ==
    LET returned(r) ==
            IF r.threw THEN Throw(st, TypeError)
            ELSE [st EXCEPT !.outcome = [kind |-> "result", data |-> r.result,
                                         text |-> r.text, error |-> NoError],
                            !.tool = [NoTool EXCEPT !.name = st.tool.name, !.pc = "done"]]
    IN  returned(jsonResult(data, enrich))

\* The grinfiRequest call the handler awaits.
Awaited(st) == st.log[Len(st.log)]

ListsPath == "/leads/api/lists"
MessagesPath == "/flows/api/linkedin-messages"
\* `/leads/api/leads/${leadUuid}`, t the conversion of leadUuid to a string
LeadsPath == "/leads/api/leads/"
LeadPath(t) == LeadsPath \o t.s

\* String(v) for a number or a string.
String(v) == IF "n" \in DOMAIN v THEN Val(NumToStr(v.n)) ELSE v

\* The assignments query[key] = String(v) of entries i.. whose condition
\* held, made in order on q.
RECURSIVE AssignAll(_, _, _)
AssignAll(q, entries, i) ==
    IF i > Len(entries) THEN q
    ELSE AssignAll(IF entries[i].given
                   THEN PutMember(q, entries[i].k, String(entries[i].v)) ELSE q,
                   entries, i + 1)

\* The mutant of buildQuery: search goes out under its own name.
buildQueryPlainSearch(params, filterFields) ==
    LET Defined(v) == v # JUndef /\ v # Undefined          \* v !== undefined
        if(given, key, v) == [given |-> given, k |-> key, v |-> v]
    IN  AssignAll(<<>>,
                  <<if(Defined(params.limit), "limit", params.limit),
                    if(Defined(params.offset), "offset", params.offset),
                    if(Truthy(params.order_field), "order_field", params.order_field),
                    if(Truthy(params.order_type), "order_type", params.order_type),
                    if(Truthy(params.search), "search", params.search)>>, 1)

\* buildQuery(params, filterFields): the query object as the list of its
\* members in insertion order; the statements of the function in their
\* order, each with its condition, its key and the value it converts.  No
\* filterFields and [] give the same query.
buildQuery(params, filterFields) ==
    LET Defined(v) == v # JUndef /\ v # Undefined          \* v !== undefined
        if(given, key, v) == [given |-> given, k |-> key, v |-> v]
    IN  AssignAll(<<>>,
                  <<if(Defined(params.limit), "limit", params.limit),
                    if(Defined(params.offset), "offset", params.offset),
                    if(Truthy(params.order_field), "order_field", params.order_field),
                    if(Truthy(params.order_type), "order_type", params.order_type),
                    if(Truthy(params.search), "filter[q]", params.search)>>
                  \o [i \in DOMAIN filterFields |->
                         if(Defined(params[filterFields[i]]),
                            "filter[" \o filterFields[i] \o "]",
                            params[filterFields[i]])], 1)

EmailsPath == "/emails/api/emails"

\* The names under which the parameters of a list tool that were left
\* undefined would travel.
UnsetInQuery(params, filterFields) ==
    { n \in {"limit", "offset"} : params[n] = JUndef }
    \cup (IF params.order_field = Undefined THEN {"order_field"} ELSE {})
    \cup (IF params.order_type = Undefined THEN {"order_type"} ELSE {})
    \cup (IF params.search = Undefined THEN {"filter[q]"} ELSE {})
    \cup { "filter[" \o filterFields[i] \o "]" :
             i \in { j \in DOMAIN filterFields : params[filterFields[j]] = Undefined } }

\* list_lists: the query is buildQuery(params).
list_lists(st, params) ==
    Call(WithTool(st, [NoTool EXCEPT !.name = "list_lists", !.pc = "call",
                                     !.unset = UnsetInQuery(params, <<>>)]),
         "GET", ListsPath, JUndef, buildQuery(params, <<>>))

EmailFilters == <<"lead_uuid", "sender_profile_uuid", "status", "type">>

\* list_emails: the query is buildQuery(params, [...]).
list_emails(st, params) ==
    Call(WithTool(st, [NoTool EXCEPT !.name = "list_emails", !.pc = "call",
                                     !.unset = UnsetInQuery(params, EmailFilters)]),
         "GET", EmailsPath, JUndef, buildQuery(params, EmailFilters))

\* get_list and create_list: one call, its result handed to jsonResult.
get_list(st, params) ==
    Call(WithTool(st, [NoTool EXCEPT !.name = "get_list", !.pc = "call"]),
         "GET", ListsPath \o "/" \o params.uuid, JUndef, <<>>)

get_contact(st, params) ==
    Call(WithTool(st, [NoTool EXCEPT !.name = "get_contact", !.pc = "call"]),
         "GET", LeadsPath \o params.uuid, JUndef, <<>>)

create_list(st, params) ==
    Call(WithTool(st, [NoTool EXCEPT !.name = "create_list", !.pc = "call"]),
         "POST", ListsPath, JObj(<<Member("name", JStr(params.name))>>), <<>>)

\* delete_mailbox: the flag, and the mailbox to reassign to when it is given,
\* make the body handed to grinfiRequest.
delete_mailbox(st, params) ==
    LET send(body) ==
            Call(WithTool(st, [NoTool EXCEPT !.name = "delete_mailbox", !.pc = "call",
                                             !.body = body]),
                 "DELETE", "/emails/api/mailboxes/" \o params.uuid, body, <<>>)
    IN  send(JObj(<<Member("automation_reassign_mailboxes",
                           JBool(params.automation_reassign_mailboxes))>>
                  \o IF JTruthy(params.automation_mailbox_to_reassign)
                     THEN <<Member("automation_mailbox_to_reassign",
                                   params.automation_mailbox_to_reassign)>>
                     ELSE << >>))

\* The mutant of Min: the requested value as it is.
MinUncapped(a, b) == a

Min(a, b) == IF a < b THEN a ELSE b

\* The names of the members of fields that are undefined.
UnsetOf(fields) == { fields[i].k : i \in { j \in DOMAIN fields : fields[j].v = JUndef } }

\* a ?? b
Coalesce(a, b) == IF Nullish(a) THEN b ELSE a

\* update_contact: the fields that are not undefined make the body.
update_contact(st, params) ==
    Call(WithTool(st, [NoTool EXCEPT !.name = "update_contact", !.pc = "call",
                                     !.unset = UnsetOf(params.fields)]),
         "PUT", LeadsPath \o params.uuid,
         JObj(SelectSeq(params.fields, LAMBDA f : f.v # JUndef)), <<>>)

\* upsert_custom_field_value
upsert_custom_field_value(st, params) ==
    Call(WithTool(st, [NoTool EXCEPT !.name = "upsert_custom_field_value", !.pc = "call",
                                     !.unset = UnsetOf(<<Member("value", params.value)>>)]),
         "PUT", "/leads/api/custom-fields/" \o params.custom_field_uuid \o "/values",
         JObj(<<Member("object_type", JStr(params.object_type)),
                Member("object_uuid", JStr(params.object_uuid)),
                Member("value", Coalesce(params.value, JNull))>>), <<>>)

\* create_task; type and timezone have documented defaults.
create_task(st, params) ==
    Call(WithTool(st, [NoTool EXCEPT !.name = "create_task", !.pc = "call",
                                     !.unset = UnsetOf(<<Member("note", params.note)>>)]),
         "POST", "/flows/api/tasks",
         JObj(<<Member("lead_uuid", JStr(params.lead_uuid)),
                Member("sender_profile_uuid", JStr(params.sender_profile_uuid)),
                Member("type", Coalesce(params.type, JStr("linkedin_send_message"))),
                Member("automation", JStr("manual")),
                Member("status", JStr("new")),
                Member("payload", JObj(<<Member("template", JStr(params.text)),
                                         Member("note", Coalesce(params.note, JNull))>>)),
                Member("schedule_at", JStr(params.schedule_at)),
                Member("timezone", Coalesce(params.timezone, JStr("UTC"))),
                Member("filter", JObj(<<Member("all", JBool(FALSE)),
                                        Member("ids", JArr(<<JStr(params.lead_uuid)>>)),
                                        Member("excludeIds", JArr(<<>>))>>))>>), <<>>)

DefaultLimit == 300
LimitCap == 1000

\* The query of the message list request.
unreadQuery(params) ==
    <<Param("limit", Val(NumToStr(Min(IF Nullish(params.limit) THEN DefaultLimit
                                      ELSE params.limit.n, LimitCap)))),
      Param("filter[type]", Val(<<"i", "n", "b", "o", "x">>)),
      Param("order_field", Val(<<"c", "r", "e", "a", "t", "e", "d", "_", "a", "t">>)),
      Param("order_type", Val(<<"d", "e", "s", "c">>))>>
    \o (IF Truthy(params.sender_profile_uuid)
        THEN <<Param("filter[sender_profile_uuid]", params.sender_profile_uuid)>>
        ELSE <<>>)

\* get_unread_conversations up to its first await.
get_unread_conversations(st, params) ==
    Call(WithTool(st, [NoTool EXCEPT
                          !.name = "get_unread_conversations", !.pc = "list",
                          !.limit = params.limit,
                          !.unset = IF params.sender_profile_uuid = Undefined
                                    THEN {"filter[sender_profile_uuid]"} ELSE {}]),
         "GET", MessagesPath, JUndef, unreadQuery(params))

\* The mutant of leadLatestMessage: a later message of a lead_uuid takes the
\* place of the earlier one.
RECURSIVE leadLatestMessageLast(_, _)
leadLatestMessageLast(data, i) ==
    IF i = 0 THEN <<>>
    ELSE LET put(m, leadUuid) ==
                 IF ~IsObject(leadUuid) /\ \E j \in DOMAIN m : m[j].leadUuid = leadUuid
                 THEN [j \in DOMAIN m |->
                          IF m[j].leadUuid = leadUuid
                          THEN [leadUuid |-> leadUuid, latestMsg |-> data[i]]
                          ELSE m[j]]
                 ELSE Append(m, [leadUuid |-> leadUuid, latestMsg |-> data[i]])
         IN  put(leadLatestMessageLast(data, i - 1), Get(data[i], "lead_uuid"))

\* The Map built from data[1..i]: the first message of each lead_uuid, in
\* the order the keys first occur.  Two keys are the same when they are the
\* same string, number, boolean, null or undefined; an object or an array
\* that was parsed is a key of its own.
RECURSIVE leadLatestMessage(_, _)
leadLatestMessage(data, i) ==
    IF i = 0 THEN <<>>
    ELSE LET m == leadLatestMessage(data, i - 1)
             leadUuid == Get(data[i], "lead_uuid")
         IN  IF ~IsObject(leadUuid) /\ \E j \in DOMAIN m : m[j].leadUuid = leadUuid THEN m
             ELSE Append(m, [leadUuid |-> leadUuid, latestMsg |-> data[i]])

\* The number a string of decimal digits writes; from ten digits on, the
\* number is beyond every exponent a double has, and ExponentCap stands for it.
ExponentCap == 1000000000
RECURSIVE StrNat(_)
StrNat(s) ==
    IF s = "" THEN 0
    ELSE IF Char(s, 1) = "0" THEN StrNat(SubSeq(s, 2, Len(s)))
    ELSE IF Len(s) > 9 THEN ExponentCap
    ELSE LET units == CHOOSE d \in 0..9 : DigitChars[d + 1] = Char(s, Len(s))
         IN  10 * StrNat(SubSeq(s, 1, Len(s) - 1)) + units

\* The digits of 2^-1075 = 5^1075 * 10^-1075, half the least positive
\* double, and the exponent of its first digit: a number rounds to 0 unless
\* it is greater.
HalfMinDigits ==
    "2470328229206232720882843964341106861825299013071623822127928412"
    \o "5033775363510437593264991818081799618989828234772285886546332835"
    \o "5177969898199387398005390939063150356595155702263922908583924491"
    \o "0518443593180284993653615250031937045767824921936562366986365848"
    \o "0757001585769269903706311928279558551332927834338409351978015531"
    \o "2465972635795746227664652728272200563740064854999770965994704540"
    \o "2082816622623785739345073633900796776193057750674017632467360096"
    \o "8951340535537458516661134223766678604162159680461914467291840300"
    \o "5300575308490487653917113865916462395249126236538818796362393732"
    \o "8042389101867234849766823508986338858792562830275599565752445550"
    \o "7255189313690836254779186948667994968324049705821028513185451396"
    \o "213837722826145437693412532098591327667236328125"
HalfMinExponent == -324

\* The digits d, read as d[1].d[2]d[3]..., are greater than HalfMinDigits
\* read the same way.
AboveHalfMin(d) ==
    LET digit(x, i) == CHOOSE n \in 0..9 : DigitChars[n + 1] = Char(x, i)
        n == IF Len(d) < Len(HalfMinDigits) THEN Len(d) ELSE Len(HalfMinDigits)
    IN  \/ \E i \in 1..n : /\ digit(d, i) > digit(HalfMinDigits, i)
                           /\ SubSeq(d, 1, i - 1) = SubSeq(HalfMinDigits, 1, i - 1)
        \/ /\ Len(d) > Len(HalfMinDigits)
           /\ SubSeq(d, 1, Len(HalfMinDigits)) = HalfMinDigits
           /\ ~Within(SubSeq(d, Len(HalfMinDigits) + 1, Len(d)), "0")

\* The unsigned decimal literal u (digits, a fraction, an exponent) is a
\* number and the double nearest to it is not 0.
PositiveDecimal(u) ==
    LET split(ePos) ==
            [mant |-> IF ePos = 0 THEN u ELSE SubSeq(u, 1, ePos - 1),
             hasExp |-> ePos # 0,
             expo |-> IF ePos = 0 THEN "" ELSE SubSeq(u, ePos + 1, Len(u))]
        parts(p, dot) ==
            [int |-> IF dot = 0 THEN p.mant ELSE SubSeq(p.mant, 1, dot - 1),
             frac |-> IF dot = 0 THEN "" ELSE SubSeq(p.mant, dot + 1, Len(p.mant)),
             hasExp |-> p.hasExp,
             neg |-> p.expo # "" /\ Char(p.expo, 1) = "-",
             expDigits |-> IF p.expo # "" /\ Char(p.expo, 1) \in {"+", "-"}
                           THEN SubSeq(p.expo, 2, Len(p.expo)) ELSE p.expo]
        scaled(q, first) ==
            LET k == Len(q.int) - first
                     + (IF q.neg THEN 0 - StrNat(q.expDigits) ELSE StrNat(q.expDigits))
            IN  /\ first # 0
                /\ \/ k > HalfMinExponent
                   \/ /\ k = HalfMinExponent
                      /\ AboveHalfMin(SubSeq(q.int \o q.frac, first, Len(q.int) + Len(q.frac)))
        number(q) ==
            /\ q.int \o q.frac # ""
            /\ Within(q.int \o q.frac, "0123456789")
            /\ q.hasExp => q.expDigits # "" /\ Within(q.expDigits, "0123456789")
            /\ scaled(q, IndexOf(q.int \o q.frac, {"1", "2", "3", "4", "5", "6", "7", "8", "9"}))
        literal(p) == number(parts(p, IndexOf(p.mant, {"."})))
    IN  literal(split(IndexOf(u, {"e", "E"})))

\* Number(s) > 0 for a string s: white space at the ends is dropped; the
\* rest is a decimal literal with or without a sign, Infinity with or without
\* a sign, or a hexadecimal, octal or binary integer; anything else is NaN.
StrGtZero(s) ==
    LET radix(t, digits) ==
            /\ Len(t) > 2
            /\ Within(SubSeq(t, 3, Len(t)), digits)
            /\ ~Within(SubSeq(t, 3, Len(t)), "0")
        signed(t, sign) ==
            LET u == SubSeq(t, Len(sign) + 1, Len(t))
            IN  sign # "-" /\ (u = "Infinity" \/ PositiveDecimal(u))
        number(t) ==
            IF Prefix(t, 2) \in {"0x", "0X"} THEN radix(t, "0123456789abcdefABCDEF")
            ELSE IF Prefix(t, 2) \in {"0o", "0O"} THEN radix(t, "01234567")
            ELSE IF Prefix(t, 2) \in {"0b", "0B"} THEN radix(t, "01")
            ELSE signed(t, IF t # "" /\ Char(t, 1) \in {"+", "-"} THEN Char(t, 1) ELSE "")
    IN  number(Trim(s))

\* v > 0: a number is compared as it is; true is 1, false and null are 0,
\* undefined is NaN; a string is converted to a number; an object or an array
\* is converted to a string first (and the comparison throws when that
\* conversion throws), and the string to a number.
GtZero(v) ==
    LET primitive(t) == [threw |-> t.threw, v |-> ~t.threw /\ StrGtZero(t.s)]
    IN  CASE v.t = "num" -> [threw |-> FALSE, v |-> v.n > 0]
          [] v.t = "bool" -> [threw |-> FALSE, v |-> v.b]
          [] v.t \in {"str", "obj", "arr"} -> primitive(TemplateStr(v))
          [] OTHER -> [threw |-> FALSE, v |-> FALSE]

\* a.some((uc) => uc.count > 0) from element i on: stops at the first hit,
\* throws on an element that is null and on a count whose comparison throws.
RECURSIVE some(_, _)
some(a, i) ==
    IF i > Len(a) THEN [threw |-> FALSE, v |-> FALSE]
    ELSE IF Nullish(a[i]) THEN [threw |-> TRUE, v |-> FALSE]
    ELSE LET test(g) == IF g.threw \/ g.v THEN g ELSE some(a, i + 1)
         IN  test(GtZero(Get(a[i], "count")))

\* The mutant of HasUnread: the counts are not looked at.
HasUnreadAnyEntry(unreadCounts) ==
    CASE unreadCounts.t = "arr" -> [threw |-> FALSE, v |-> Len(unreadCounts.a) > 0]
      [] unreadCounts.t = "str" -> [threw |-> unreadCounts.s # "", v |-> FALSE]
      [] OTHER -> [threw |-> FALSE, v |-> FALSE]

\* unreadCounts.length > 0 && unreadCounts.some((uc) => uc.count > 0)
HasUnread(unreadCounts) ==
    CASE unreadCounts.t = "arr" ->
            IF Len(unreadCounts.a) > 0 THEN some(unreadCounts.a, 1)
            ELSE [threw |-> FALSE, v |-> FALSE]
      [] unreadCounts.t = "str" ->
            \* a non-empty string has a length and no method some
            [threw |-> unreadCounts.s # "", v |-> FALSE]
      [] OTHER ->
            \* only an object can have a length; it has no method some
            LET noSome(g) == [threw |-> g.threw \/ g.v, v |-> FALSE]
            IN  noSome(GtZero(Get(unreadCounts, "length")))

\* The body of the try block after the detail fetch returned leadData: it
\* throws, or pushes at most one entry.
DetailTry(leadData, leadUuid, latestMsg) ==
    IF Nullish(leadData) THEN [threw |-> TRUE, push |-> <<>>]
    ELSE LET lead == Get(leadData, "lead")
             counts == IF Nullish(lead) THEN JUndef ELSE Get(lead, "unread_counts")
             unreadCounts == IF Nullish(counts) THEN JArr(<<>>) ELSE counts
             name == IF Nullish(lead) THEN JUndef ELSE Get(lead, "name")
             tested(h) ==
                 IF h.threw THEN [threw |-> TRUE, push |-> <<>>]
                 ELSE IF ~h.v THEN [threw |-> FALSE, push |-> <<>>]
                 ELSE [threw |-> FALSE,
                       push |-> <<JObj(<<
                           Member("contact_name",
                                  IF Nullish(name) THEN JStr("Unknown") ELSE name),
                           Member("contact_uuid", leadUuid),
                           Member("unread_counts", unreadCounts),
                           Member("latest_message", Get(latestMsg, "text")),
                           Member("latest_message_at", Get(latestMsg, "created_at")),
                           Member("sender_profile_uuid",
                                  Get(latestMsg, "sender_profile_uuid")),
                           Member("conversation_uuid",
                                  Get(latestMsg, "linkedin_conversation_uuid"))>>)>>]
         IN  tested(HasUnread(unreadCounts))

\* The mutant of Caught: the error leaves the loop.
CaughtRethrown(e) == [rethrow |-> TRUE, error |-> e]

\* catch { /* skip */ }: the error goes no further.
Caught(e) == [rethrow |-> FALSE, error |-> e]

\* The mutant of EmptyResult: the result of the loop over no contacts.
EmptyResultOfLoop ==
    JObj(<<Member("unread_conversations", JArr(<<>>)),
           Member("scanned_messages", JNum(0)),
           Member("note", JStr("Showing contacts with unread_counts > 0 from recent inbox messages"))>>)

\* return jsonResult({ unread_conversations: [], total_unread: 0, note })
EmptyResult ==
    JObj(<<Member("unread_conversations", JArr(<<>>)),
           Member("total_unread", JNum(0)),
           Member("note", JStr("No inbox messages found"))>>)

\* The mutant of FinalResult: total_unread counts the contacts looked at.
FinalResultCountsContacts(t) ==
    JObj(<<Member("unread_conversations", JArr(t.unreadConversations)),
           Member("total_unread", JNum(Len(t.leads))),
           Member("scanned_messages", JNum(t.scanned)),
           Member("total_inbox_messages", t.total),
           Member("note", JStr("Showing contacts with unread_counts > 0 from recent inbox messages"))>>)

\* The result after the loop over the contacts.
FinalResult(t) ==
    JObj(<<Member("unread_conversations", JArr(t.unreadConversations)),
           Member("total_unread", JNum(Len(t.unreadConversations))),
           Member("scanned_messages", JNum(t.scanned)),
           Member("total_inbox_messages", t.total),
           Member("note", JStr("Showing contacts with unread_counts > 0 from recent inbox messages"))>>)

\* The mutant of DetailLoop: the fetch for the next contact is issued along
\* with the one for this contact.
DetailLoopConcurrent(st) ==
    IF st.tool.idx > Len(st.tool.leads) THEN Return(st, FinalResult(st.tool), FALSE)
    ELSE LET both(st1) ==
                 IF st.tool.idx < Len(st.tool.leads)
                 THEN Call(st1, "GET",
                           LeadPath(TemplateStr(st.tool.leads[st.tool.idx + 1].leadUuid)),
                           JUndef, <<>>)
                 ELSE st1
         IN  both(Call(st, "GET", LeadPath(TemplateStr(st.tool.leads[st.tool.idx].leadUuid)),
                       JUndef, <<>>))

\* The detail loop from lead idx on, up to its next await or the return.  A
\* path that cannot be written (the conversion of leadUuid throws) and a call
\* that throws before it fetches end the try block at once: the error is
\* caught and the loop goes on.
RECURSIVE DetailLoop(_)
DetailLoop(st) ==
    IF st.tool.idx > Len(st.tool.leads) THEN Return(st, FinalResult(st.tool), FALSE)
    ELSE LET next(s1) == DetailLoop([s1 EXCEPT !.tool.idx = @ + 1])
             called(st1) ==
                 IF ~Awaited(st1).done THEN st1
                 ELSE IF Caught(Awaited(st1).error).rethrow
                 THEN Throw(st1, Awaited(st1).error)
                 ELSE next(st1)
             try(t) ==
                 IF t.threw
                 THEN IF Caught(TypeError).rethrow THEN Throw(st, TypeError) ELSE next(st)
                 ELSE called(Call(st, "GET", LeadPath(t), JUndef, <<>>))
         IN  try(TemplateStr(st.tool.leads[st.tool.idx].leadUuid))

\* What `for (const msg of data)` goes through: the elements of an array,
\* the characters of a string.
Iterated(data) ==
    IF data.t = "arr" THEN data.a
    ELSE [i \in 1..Len(data.s) |-> JStr(SubSeq(data.s, i, i))]

\* get_unread_conversations after the message list arrived.
AfterList(st, messagesResult) ==
    IF Nullish(messagesResult) THEN Throw(st, TypeError)
    ELSE LET data == Get(messagesResult, "data")
             loop(msgs) ==
                 IF \E i \in DOMAIN msgs : Nullish(msgs[i])
                 THEN Throw(st, TypeError)                            \* msg.lead_uuid
                 ELSE DetailLoop([st EXCEPT
                          !.tool.pc = "detail",
                          !.tool.limit = NoTool.limit,
                          !.tool.unset = {},
                          !.tool.leads = leadLatestMessage(msgs, Len(msgs)),
                          !.tool.idx = 1,
                          !.tool.scanned = Get(data, "length").n,
                          !.tool.total = Get(messagesResult, "total")])
         IN  IF ~JTruthy(data) \/ Get(data, "length") = JNum(0)
             THEN Return(st, EmptyResult, FALSE)
             ELSE IF data.t \notin {"arr", "str"} THEN Throw(st, TypeError)  \* not iterable
             ELSE loop(Iterated(data))

\* get_unread_conversations after a detail fetch settled.
AfterDetail(st) ==
    LET c == Awaited(st)
        l == st.tool.leads[st.tool.idx]
        next == [st EXCEPT !.tool.idx = @ + 1]
        catch(e) == [rethrow |-> Caught(e).rethrow, error |-> e, st |-> next]
        tried(d) ==
            IF d.threw THEN catch(TypeError)
            ELSE [rethrow |-> FALSE, error |-> NoError,
                  st |-> [next EXCEPT !.tool.unreadConversations = @ \o d.push]]
        resume(r) == IF r.rethrow THEN Throw(st, r.error) ELSE DetailLoop(r.st)
    IN  resume(IF c.threw THEN catch(c.error)
               ELSE tried(DetailTry(c.value, l.leadUuid, l.latestMsg)))

----------------------------------------------------------------------------
(* The tools that forward one request.  A handler of createMcpServer gets  *)
(* the arguments as the schema of the tool parsed them: an object with the *)
(* keys of the schema in their order, a key that was not given left out.   *)

ZString == [z |-> "string"]
ZNumber == [z |-> "number"]
ZBoolean == [z |-> "boolean"]
ZUnknown == [z |-> "unknown"]
ZRecord == [z |-> "record"]
ZEnum(values) == [z |-> "enum", values |-> values]
ZArray(type) == [z |-> "array", of |-> type]

\* key: type  and  key: type.optional()
Required(key, type) == [k |-> key, type |-> type, optional |-> FALSE]
Optional(key, type) == [k |-> key, type |-> type, optional |-> TRUE]

\* v !== undefined
Given(v) == v # JUndef

\* A string parameter as the query builder holds it.
Str(v) == IF v = JUndef THEN Undefined ELSE Val(Chars(v.s))

\* if (given) object[key] = v
When(given, key, v) == [given |-> given, k |-> key, v |-> v]

\* The members of an object literal, each an assignment.
Members(object) == [i \in DOMAIN object.o |-> When(TRUE, object.o[i].k, object.o[i].v)]

\* for (const [k, v] of Object.entries(object)) { if (v !== undefined) body[k] = v; }
Entries(object) == [i \in DOMAIN object.o |-> When(Given(object.o[i].v), object.o[i].k, object.o[i].v)]

\* const { picked, ...rest } = params
Rest(params, picked) == JObj(SelectSeq(params.o, LAMBDA m : m.k \notin picked))

\* The object after the assignments of entries i.., made in order on o.
RECURSIVE AssignEach(_, _, _)
AssignEach(o, entries, i) ==
    IF i > Len(entries) THEN o
    ELSE AssignEach(IF entries[i].given THEN PutMember(o, entries[i].k, entries[i].v) ELSE o,
                    entries, i + 1)

Assigned(entries) == JObj(AssignEach(<<>>, entries, 1))

\* The schema a tool is registered with.
toolSchema(name) ==
    CASE name = "find_contact" -> <<Optional("linkedin_id", ZString), Optional("email", ZString),
                                  Optional("name", ZString), Optional("company_name", ZString),
                                  Optional("disable_aggregation", ZBoolean)>>
      [] name = "search_contacts" -> <<Optional("filter", ZRecord), Optional("limit", ZNumber),
                                     Optional("offset", ZNumber), Optional("order_field",
                                     ZString), Optional("order_type", ZEnum(<<"asc", "desc">>)),
                                     Optional("disable_aggregation", ZBoolean)>>
      [] name = "get_contact" -> <<Required("uuid", ZString)>>
      [] name = "update_contact" -> <<Required("uuid", ZString), Optional("first_name", ZString),
                                    Optional("last_name", ZString), Optional("company_name",
                                    ZString), Optional("ln_id", ZString), Optional("sn_id",
                                    ZString), Optional("linkedin", ZString), Optional("email",
                                    ZString), Optional("about", ZString), Optional("domain",
                                    ZString), Optional("headline", ZString), Optional("position",
                                    ZString), Optional("raw_address", ZString)>>
      [] name = "delete_contact" -> <<Required("uuid", ZString)>>
      [] name = "upsert_contact" -> <<Required("list_uuid", ZString), Required("linkedin_id",
                                    ZString), Optional("first_name", ZString),
                                    Optional("last_name", ZString), Optional("company_name",
                                    ZString), Optional("ln_id", ZString), Optional("sn_id",
                                    ZString), Optional("linkedin", ZString), Optional("email",
                                    ZString), Optional("about", ZString), Optional("domain",
                                    ZString), Optional("headline", ZString), Optional("position",
                                    ZString), Optional("raw_address", ZString),
                                    Optional("custom_fields", ZRecord),
                                    Optional("update_if_exists", ZBoolean),
                                    Optional("move_to_list", ZBoolean)>>
      [] name = "change_contact_pipeline_stage" -> <<Required("contact_uuids", ZArray(ZString)),
                                                   Required("pipeline_stage_uuid", ZString)>>
      [] name = "leads_mass_action" -> <<Required("type", ZString), Required("filter", ZRecord),
                                       Optional("payload", ZRecord)>>
      [] name = "list_lists" -> <<Optional("limit", ZNumber), Optional("offset", ZNumber),
                                Optional("order_field", ZString), Optional("order_type",
                                ZEnum(<<"asc", "desc">>)), Optional("search", ZString)>>
      [] name = "get_list" -> <<Required("uuid", ZString)>>
      [] name = "create_list" -> <<Required("name", ZString)>>
      [] name = "update_list" -> <<Required("uuid", ZString), Required("name", ZString)>>
      [] name = "delete_list" -> <<Required("uuid", ZString)>>
      [] name = "get_list_metrics" -> <<Required("uuids", ZArray(ZString))>>
      [] name = "list_companies" -> <<Optional("limit", ZNumber), Optional("offset", ZNumber),
                                    Optional("order_field", ZString), Optional("order_type",
                                    ZEnum(<<"asc", "desc">>)), Optional("search", ZString)>>
      [] name = "get_company" -> <<Required("uuid", ZString)>>
      [] name = "create_companies" -> <<Required("companies", ZArray(ZRecord)),
                                      Optional("list_uuids", ZArray(ZString)),
                                      Optional("data_source_uuid", ZString)>>
      [] name = "update_company" -> <<Required("uuid", ZString), Optional("name", ZString),
                                    Optional("domain", ZString), Optional("website", ZString),
                                    Optional("linkedin", ZString), Optional("ln_id", ZNumber),
                                    Optional("phone", ZString), Optional("industry", ZString),
                                    Optional("employees_range", ZString),
                                    Optional("hq_raw_address", ZString), Optional("about",
                                    ZString), Optional("lead_status_uuid", ZString)>>
      [] name = "delete_company" -> <<Required("uuid", ZString)>>
      [] name = "lookup_companies" -> <<Required("lookups", ZArray(ZRecord))>>
      [] name = "search_company_leads" -> <<Required("uuids", ZArray(ZString))>>
      [] name = "enrich_companies" -> <<Optional("uuids", ZArray(ZString)), Optional("filter",
                                      ZRecord)>>
      [] name = "companies_mass_action" -> <<Required("type", ZString), Required("filter",
                                           ZRecord), Optional("payload", ZRecord)>>
      [] name = "list_tags" -> <<>>
      [] name = "create_tag" -> <<Required("name", ZString), Optional("color", ZString)>>
      [] name = "update_tag" -> <<Required("uuid", ZString), Optional("name", ZString),
                                Optional("color", ZString)>>
      [] name = "delete_tag" -> <<Required("uuid", ZString)>>
      [] name = "get_tag_metrics" -> <<Required("uuids", ZArray(ZString)), Required("metrics",
                                     ZArray(ZEnum(<<"leads_count", "companies_count">>)))>>
      [] name = "list_pipeline_stages" -> <<Optional("object", ZEnum(<<"lead", "company">>)),
                                          Optional("type", ZEnum(<<"custom", "new",
                                          "approaching", "engaging", "replied">>))>>
      [] name = "create_pipeline_stage" -> <<Required("name", ZString), Required("object",
                                           ZEnum(<<"lead", "company">>)), Required("category",
                                           ZEnum(<<"cold", "engaging", "positive",
                                           "negative">>)), Optional("order", ZNumber)>>
      [] name = "update_pipeline_stage" -> <<Required("uuid", ZString), Optional("name",
                                           ZString), Optional("category", ZEnum(<<"cold",
                                           "engaging", "positive", "negative">>)),
                                           Optional("order", ZNumber)>>
      [] name = "delete_pipeline_stage" -> <<Required("uuid", ZString)>>
      [] name = "list_custom_fields" -> <<Optional("limit", ZNumber), Optional("offset",
                                        ZNumber), Optional("order_field", ZString),
                                        Optional("order_type", ZEnum(<<"asc", "desc">>))>>
      [] name = "create_custom_field" -> <<Required("name", ZString), Required("object",
                                         ZEnum(<<"lead", "company">>)), Optional("order",
                                         ZNumber)>>
      [] name = "upsert_custom_field_value" -> <<Required("custom_field_uuid", ZString),
                                               Required("object_type", ZEnum(<<"lead",
                                               "company">>)), Required("object_uuid", ZString),
                                               Optional("value", ZUnknown)>>
      [] name = "list_notes" -> <<Optional("limit", ZNumber), Optional("offset", ZNumber),
                                Optional("order_field", ZString), Optional("order_type",
                                ZEnum(<<"asc", "desc">>))>>
      [] name = "get_note" -> <<Required("uuid", ZString)>>
      [] name = "create_note" -> <<Required("object", ZEnum(<<"lead", "company">>)),
                                 Required("object_uuid", ZString), Required("note", ZString)>>
      [] name = "update_note" -> <<Required("uuid", ZString), Required("note", ZString)>>
      [] name = "delete_note" -> <<Required("uuid", ZString)>>
      [] name = "list_activities" -> <<Optional("object", ZEnum(<<"lead", "company">>)),
                                     Optional("filter", ZString), Optional("limit", ZNumber),
                                     Optional("offset", ZNumber), Optional("order_field",
                                     ZString), Optional("order_type", ZEnum(<<"asc", "desc">>))>>
      [] name = "create_activity" -> <<Required("object_uuid", ZString), Required("object_type",
                                     ZEnum(<<"lead", "company">>)), Required("type", ZString),
                                     Optional("payload", ZRecord)>>
      [] name = "list_leads_blacklist" -> <<Optional("limit", ZNumber), Optional("offset",
                                          ZNumber), Optional("order_field", ZString),
                                          Optional("order_type", ZEnum(<<"asc", "desc">>)),
                                          Optional("search", ZString)>>
      [] name = "add_to_leads_blacklist" -> <<Optional("name", ZString), Optional("linkedin",
                                            ZString), Optional("ln_id", ZString),
                                            Optional("personal_email", ZString),
                                            Optional("work_email", ZString),
                                            Optional("company_name", ZString)>>
      [] name = "list_companies_blacklist" -> <<Optional("limit", ZNumber), Optional("offset",
                                              ZNumber), Optional("order_field", ZString),
                                              Optional("order_type", ZEnum(<<"asc", "desc">>)),
                                              Optional("search", ZString)>>
      [] name = "add_to_companies_blacklist" -> <<Optional("name", ZString), Optional("domain",
                                                ZString), Optional("linkedin", ZString),
                                                Optional("ln_id", ZString)>>
      [] name = "list_webhooks" -> <<>>
      [] name = "get_webhook" -> <<Required("uuid", ZString)>>
      [] name = "create_webhook" -> <<Required("name", ZString), Required("event", ZString),
                                    Required("target_url", ZString), Optional("request_method",
                                    ZString), Optional("filters", ZString)>>
      [] name = "update_webhook" -> <<Required("uuid", ZString), Optional("name", ZString),
                                    Optional("event", ZString), Optional("target_url", ZString),
                                    Optional("request_method", ZString), Optional("filters",
                                    ZString)>>
      [] name = "delete_webhook" -> <<Required("uuid", ZString)>>
      [] name = "test_webhook" -> <<Required("event", ZString), Required("target_url", ZString),
                                  Optional("request_method", ZString), Optional("lead_uuid",
                                  ZString)>>
      [] name = "get_webhook_metrics" -> <<Required("uuids", ZArray(ZString)),
                                         Optional("metrics", ZArray(ZString))>>
      [] name = "list_attachments" -> <<Optional("limit", ZNumber), Optional("offset", ZNumber),
                                      Optional("order_field", ZString), Optional("order_type",
                                      ZEnum(<<"asc", "desc">>))>>
      [] name = "get_attachment" -> <<Required("uuid", ZString)>>
      [] name = "delete_attachment" -> <<Required("uuid", ZString)>>
      [] name = "list_enrichment_queue" -> <<Optional("limit", ZNumber), Optional("offset",
                                           ZNumber), Optional("order_field", ZString),
                                           Optional("order_type", ZEnum(<<"asc", "desc">>))>>
      [] name = "get_enrichment_metrics" -> <<>>
      [] name = "list_automations" -> <<Optional("limit", ZNumber), Optional("offset", ZNumber),
                                      Optional("order_field", ZString), Optional("order_type",
                                      ZEnum(<<"asc", "desc">>)), Optional("search", ZString)>>
      [] name = "get_automation" -> <<Required("flow_uuid", ZString)>>
      [] name = "get_automation_metrics" -> <<Required("uuids", ZArray(ZString))>>
      [] name = "start_automation" -> <<Required("flow_uuid", ZString)>>
      [] name = "stop_automation" -> <<Required("flow_uuid", ZString)>>
      [] name = "archive_automation" -> <<Required("flow_uuid", ZString)>>
      [] name = "unarchive_automation" -> <<Required("flow_uuid", ZString)>>
      [] name = "delete_automation" -> <<Required("flow_uuid", ZString)>>
      [] name = "clone_automation" -> <<Required("flow_uuid", ZString), Required("name",
                                      ZString), Optional("flow_workspace_uuid", ZString)>>
      [] name = "update_automation" -> <<Required("flow_uuid", ZString), Optional("name",
                                       ZString), Optional("description", ZString),
                                       Optional("schedule", ZRecord)>>
      [] name = "add_contact_to_automation" -> <<Required("flow_uuid", ZString),
                                               Required("lead_uuid", ZString)>>
      [] name = "add_new_contact_to_automation" -> <<Required("flow_uuid", ZString),
                                                   Required("list_uuid", ZString),
                                                   Required("linkedin_id", ZString),
                                                   Optional("first_name", ZString),
                                                   Optional("last_name", ZString),
                                                   Optional("company_name", ZString),
                                                   Optional("email", ZString),
                                                   Optional("headline", ZString),
                                                   Optional("position", ZString),
                                                   Optional("raw_address", ZString),
                                                   Optional("custom_fields", ZRecord),
                                                   Optional("update_lead_if_exists", ZBoolean),
                                                   Optional("move_to_list", ZBoolean),
                                                   Optional("flow_segment_id", ZNumber),
                                                   Optional("skip_if_lead_exists", ZBoolean)>>
      [] name = "cancel_contact_from_automations" -> <<Required("lead_uuid", ZString),
                                                     Required("flow_uuids", ZArray(ZString))>>
      [] name = "cancel_contact_from_all_automations" -> <<Required("lead_uuid", ZString)>>
      [] name = "continue_automation" -> <<Required("lead_uuid", ZString)>>
      [] name = "create_task" -> <<Required("lead_uuid", ZString),
                                 Required("sender_profile_uuid", ZString), Optional("type",
                                 ZString), Required("text", ZString), Required("schedule_at",
                                 ZString), Optional("timezone", ZString), Optional("note",
                                 ZString)>>
      [] name = "get_task" -> <<Required("uuid", ZString)>>
      [] name = "list_tasks" -> <<Optional("limit", ZNumber), Optional("offset", ZNumber),
                                Optional("order_field", ZString), Optional("order_type",
                                ZEnum(<<"asc", "desc">>)), Optional("search", ZString),
                                Optional("automation", ZEnum(<<"manual", "auto">>)),
                                Optional("status", ZEnum(<<"in_progress", "closed", "canceled",
                                "failed">>)), Optional("type", ZString), Optional("lead_uuid",
                                ZString), Optional("sender_profile_uuid", ZString),
                                Optional("flow_uuid", ZString), Optional("assignee_uuid",
                                ZString), Optional("schedule_at_before", ZString),
                                Optional("schedule_at_after", ZString)>>
      [] name = "complete_task" -> <<Required("uuid", ZString)>>
      [] name = "cancel_task" -> <<Required("uuid", ZString)>>
      [] name = "fail_task" -> <<Required("uuid", ZString)>>
      [] name = "mass_cancel_tasks" -> <<Required("uuids", ZArray(ZString))>>
      [] name = "mass_complete_tasks" -> <<Required("uuids", ZArray(ZString))>>
      [] name = "mass_retry_tasks" -> <<Required("uuids", ZArray(ZString))>>
      [] name = "mass_skip_tasks" -> <<Required("uuids", ZArray(ZString))>>
      [] name = "get_tasks_group_counts" -> <<Optional("automation", ZEnum(<<"manual",
                                            "auto">>)), Optional("schedule_at_before", ZString),
                                            Optional("schedule_at_after", ZString)>>
      [] name = "get_tasks_schedule" -> <<>>
      [] name = "list_linkedin_messages" -> <<Optional("limit", ZNumber), Optional("offset",
                                            ZNumber), Optional("order_field", ZString),
                                            Optional("order_type", ZEnum(<<"asc", "desc">>)),
                                            Optional("search", ZString), Optional("lead_uuid",
                                            ZString), Optional("sender_profile_uuid", ZString),
                                            Optional("linkedin_account_uuid", ZString),
                                            Optional("linkedin_conversation_uuid", ZString),
                                            Optional("status", ZString), Optional("type",
                                            ZString), Optional("user_id", ZString)>>
      [] name = "get_unread_conversations" -> <<Optional("limit", ZNumber),
                                              Optional("sender_profile_uuid", ZString)>>
      [] name = "mark_conversation_as_read" -> <<Required("lead_uuid", ZString)>>
      [] name = "send_linkedin_message" -> <<Required("sender_profile_uuid", ZString),
                                           Required("lead_uuid", ZString), Required("text",
                                           ZString), Optional("template_uuid", ZString)>>
      [] name = "delete_linkedin_message" -> <<Required("uuid", ZString)>>
      [] name = "retry_linkedin_message" -> <<Required("uuid", ZString)>>
      [] name = "list_emails" -> <<Optional("limit", ZNumber), Optional("offset", ZNumber),
                                 Optional("order_field", ZString), Optional("order_type",
                                 ZEnum(<<"asc", "desc">>)), Optional("search", ZString),
                                 Optional("lead_uuid", ZString), Optional("sender_profile_uuid",
                                 ZString), Optional("status", ZString), Optional("type",
                                 ZString)>>
      [] name = "get_email" -> <<Required("uuid", ZString)>>
      [] name = "send_email" -> <<Required("sender_profile_uuid", ZString), Required("lead_uuid",
                                ZString), Required("from_name", ZString), Required("from_email",
                                ZString), Required("to_name", ZString), Required("to_email",
                                ZString), Required("subject", ZString), Optional("cc",
                                ZArray(ZString)), Optional("bcc", ZArray(ZString))>>
      [] name = "delete_email" -> <<Required("uuid", ZString)>>
      [] name = "get_email_body" -> <<Required("uuid", ZString)>>
      [] name = "list_email_bodies" -> <<Optional("limit", ZNumber), Optional("offset", ZNumber),
                                       Optional("order_field", ZString), Optional("order_type",
                                       ZEnum(<<"asc", "desc">>)), Optional("search", ZString)>>
      [] name = "get_email_thread" -> <<Required("reply_to_email_uuid", ZString)>>
      [] name = "get_email_llm_thread" -> <<Required("sender_profile_uuid", ZString),
                                          Required("lead_uuid", ZString), Required("lead_name",
                                          ZString), Optional("limit", ZString),
                                          Optional("sent_at_recency_in_days", ZNumber)>>
      [] name = "get_latest_emails_by_leads" -> <<Required("lead_uuids", ZArray(ZString))>>
      [] name = "list_mailboxes" -> <<Optional("limit", ZNumber), Optional("offset", ZNumber),
                                    Optional("order_field", ZString), Optional("order_type",
                                    ZEnum(<<"asc", "desc">>)), Optional("search", ZString)>>
      [] name = "get_mailbox" -> <<Required("uuid", ZString)>>
      [] name = "create_mailbox" -> <<Required("email", ZString), Required("sender_name",
                                    ZString), Required("sender_profile_uuid", ZString),
                                    Optional("provider", ZString),
                                    Optional("connection_settings", ZRecord),
                                    Optional("automation_daily_limit", ZNumber),
                                    Optional("automation_task_interval", ZNumber)>>
      [] name = "update_mailbox" -> <<Required("uuid", ZString), Optional("sender_name",
                                    ZString), Optional("connection_settings", ZRecord),
                                    Optional("automation_daily_limit", ZNumber),
                                    Optional("automation_task_interval", ZNumber),
                                    Optional("custom_tracking_domain_uuid", ZString)>>
      [] name = "delete_mailbox" -> <<Required("uuid", ZString),
                                    Required("automation_reassign_mailboxes", ZBoolean),
                                    Optional("automation_mailbox_to_reassign", ZString)>>
      [] name = "activate_mailbox" -> <<Required("uuid", ZString)>>
      [] name = "deactivate_mailbox" -> <<Required("uuid", ZString)>>
      [] name = "list_mailbox_errors" -> <<Optional("limit", ZNumber), Optional("offset",
                                         ZNumber), Optional("order_field", ZString),
                                         Optional("order_type", ZEnum(<<"asc", "desc">>)),
                                         Optional("search", ZString)>>
      [] name = "list_custom_tracking_domains" -> <<Optional("limit", ZNumber),
                                                  Optional("offset", ZNumber),
                                                  Optional("order_field", ZString),
                                                  Optional("order_type", ZEnum(<<"asc",
                                                  "desc">>))>>
      [] name = "get_custom_tracking_domain" -> <<Required("uuid", ZString)>>
      [] name = "create_custom_tracking_domain" -> <<Required("domain", ZString)>>
      [] name = "list_sender_profiles" -> <<Optional("limit", ZNumber), Optional("offset",
                                          ZNumber), Optional("order_field", ZString),
                                          Optional("order_type", ZEnum(<<"asc", "desc">>)),
                                          Optional("search", ZString)>>
      [] name = "get_sender_profile" -> <<Required("uuid", ZString)>>
      [] name = "create_sender_profile" -> <<Required("first_name", ZString),
                                           Required("last_name", ZString), Optional("label",
                                           ZString), Optional("assignee_user_id", ZNumber)>>
      [] name = "update_sender_profile" -> <<Required("uuid", ZString), Optional("first_name",
                                           ZString), Optional("last_name", ZString),
                                           Optional("label", ZString), Optional("schedule",
                                           ZRecord)>>
      [] name = "delete_sender_profile" -> <<Required("uuid", ZString)>>
      [] name = "enable_sender_profile" -> <<Required("uuid", ZString)>>
      [] name = "disable_sender_profile" -> <<Required("uuid", ZString)>>
      [] name = "list_ai_agents" -> <<Optional("limit", ZNumber), Optional("offset", ZNumber),
                                    Optional("order_field", ZString), Optional("order_type",
                                    ZEnum(<<"asc", "desc">>)), Optional("search", ZString)>>
      [] name = "get_ai_agent" -> <<Required("uuid", ZString)>>
      [] name = "list_ai_templates" -> <<Optional("limit", ZNumber), Optional("offset", ZNumber),
                                       Optional("order_field", ZString), Optional("order_type",
                                       ZEnum(<<"asc", "desc">>)), Optional("search", ZString)>>
      [] name = "get_ai_template" -> <<Required("uuid", ZString)>>
      [] name = "create_ai_template" -> <<Required("name", ZString), Optional("type", ZString),
                                        Optional("prompt", ZString), Optional("body", ZString),
                                        Optional("subject", ZString), Optional("fallback_body",
                                        ZString), Optional("enable_validation", ZBoolean),
                                        Optional("template_category_uuid", ZString)>>
      [] name = "render_ai_template" -> <<Required("template_uuid", ZString),
                                        Optional("variables", ZRecord)>>
      [] name = "list_ai_variables" -> <<Optional("limit", ZNumber), Optional("offset", ZNumber),
                                       Optional("order_field", ZString), Optional("order_type",
                                       ZEnum(<<"asc", "desc">>)), Optional("search", ZString)>>
      [] name = "ai_ask" -> <<Required("question", ZString), Optional("context", ZRecord)>>
      [] name = "list_llms" -> <<>>
      [] name = "get_llm" -> <<Required("uuid", ZString)>>
      [] name = "create_llm" -> <<Required("name", ZString), Required("provider",
                                ZEnum(<<"openai", "google", "anthropic", "perplexity",
                                "deepseek", "xai", "meta">>)), Required("provider_api_token",
                                ZString), Optional("owner", ZEnum(<<"gs", "customer">>))>>
      [] name = "update_llm" -> <<Required("uuid", ZString), Optional("name", ZString),
                                Optional("provider_api_token", ZString)>>
      [] name = "delete_llm" -> <<Required("uuid", ZString)>>
      [] name = "generate_llm_response" -> <<Required("uuid", ZString), Required("job_type",
                                           ZEnum(<<"ai_variable", "ai_template", "ai_agent">>)),
                                           Required("messages", ZArray(ZRecord)),
                                           Optional("config", ZRecord)>>
      [] name = "get_llm_metrics" -> <<Required("uuids", ZArray(ZString))>>
      [] name = "list_llm_logs" -> <<Optional("limit", ZNumber), Optional("offset", ZNumber),
                                   Optional("order_field", ZString), Optional("order_type",
                                   ZEnum(<<"asc", "desc">>))>>
      [] name = "get_llm_log" -> <<Required("uuid", ZString)>>

\* What the handler of a forwarding tool hands to grinfiRequest: the
\* statements of each handler before its await, in their order.
toolRequest(name, params) ==
    LET p(k) == Get(params, k)
        grinfiRequest(method, path, body, queryParams) ==
            [method |-> method, path |-> path, body |-> body, query |-> queryParams]
    IN  CASE name = "find_contact" ->   \* 174-194
             grinfiRequest("POST", "/leads/api/leads/lookup-one",
                 Assigned(<<When(JTruthy(p("linkedin_id")), "linkedin_id", p("linkedin_id")),
                 When(JTruthy(p("email")), "email", p("email")), When(JTruthy(p("name")), "name",
                 p("name")), When(JTruthy(p("company_name")), "company_name", p("company_name")),
                 When(Given(p("disable_aggregation")), "disable_aggregation",
                 p("disable_aggregation"))>>),
                 <<>>)
          [] name = "search_contacts" ->   \* 196-218
             grinfiRequest("POST", "/leads/api/leads/search",
                 Assigned(<<When(JTruthy(p("filter")), "filter", p("filter")),
                 When(Given(p("limit")), "limit", p("limit")), When(Given(p("offset")), "offset",
                 p("offset")), When(JTruthy(p("order_field")), "order_field", p("order_field")),
                 When(JTruthy(p("order_type")), "order_type", p("order_type")),
                 When(Given(p("disable_aggregation")), "disable_aggregation",
                 p("disable_aggregation"))>>),
                 <<>>)
          [] name = "delete_contact" ->   \* 252-255
             grinfiRequest("DELETE", "/leads/api/leads/" \o p("uuid").s,
                 JUndef,
                 <<>>)
          [] name = "upsert_contact" ->   \* 257-281
             grinfiRequest("POST", "/leads/api/leads/upsert",
                 Assigned(Members(JObj(<<Member("lead", Rest(params, {"list_uuid",
                 "custom_fields", "update_if_exists", "move_to_list"})), Member("list_uuid",
                 p("list_uuid"))>>)) \o <<When(JTruthy(p("custom_fields")), "custom_fields",
                 p("custom_fields")), When(Given(p("update_if_exists")), "update_if_exists",
                 p("update_if_exists")), When(Given(p("move_to_list")), "move_to_list",
                 p("move_to_list"))>>),
                 <<>>)
          [] name = "change_contact_pipeline_stage" ->   \* 283-298
             grinfiRequest("PUT", "/leads/api/leads/mass-action",
                 JObj(<<Member("type", JStr("contact_change_pipeline_stage")), Member("filter",
                 JObj(<<Member("all", JBool(FALSE)), Member("ids", p("contact_uuids")),
                 Member("excludeIds", JArr(<<>>))>>)), Member("payload",
                 JObj(<<Member("pipeline_stage_uuid", p("pipeline_stage_uuid"))>>))>>),
                 <<>>)
          [] name = "leads_mass_action" ->   \* 300-314
             grinfiRequest("PUT", "/leads/api/leads/mass-action",
                 Assigned(Members(JObj(<<Member("type", p("type")), Member("filter",
                 p("filter"))>>)) \o <<When(JTruthy(p("payload")), "payload", p("payload"))>>),
                 <<>>)
          [] name = "update_list" ->   \* 339-345
             grinfiRequest("PUT", "/leads/api/lists/" \o p("uuid").s,
                 JObj(<<Member("name", p("name"))>>),
                 <<>>)
          [] name = "delete_list" ->   \* 347-352
             grinfiRequest("DELETE", "/leads/api/lists/" \o p("uuid").s,
                 JUndef,
                 <<>>)
          [] name = "get_list_metrics" ->   \* 354-359
             grinfiRequest("POST", "/leads/api/lists/metrics",
                 JObj(<<Member("uuids", p("uuids"))>>),
                 <<>>)
          [] name = "list_companies" ->   \* 365-372
             grinfiRequest("GET", "/leads/api/companies",
                 JUndef,
                 buildQuery([limit |-> p("limit"), offset |-> p("offset"),
                 order_field |-> Str(p("order_field")), order_type |-> Str(p("order_type")),
                 search |-> Str(p("search"))], <<>>))
          [] name = "get_company" ->   \* 374-377
             grinfiRequest("GET", "/leads/api/companies/" \o p("uuid").s,
                 JUndef,
                 <<>>)
          [] name = "create_companies" ->   \* 379-394
             grinfiRequest("POST", "/leads/api/companies",
                 Assigned(Members(JObj(<<Member("companies",
                 p("companies"))>>)) \o <<When(JTruthy(p("list_uuids")), "list_uuids",
                 p("list_uuids")), When(JTruthy(p("data_source_uuid")), "data_source_uuid",
                 p("data_source_uuid"))>>),
                 <<>>)
          [] name = "update_company" ->   \* 396-415
             grinfiRequest("PUT", "/leads/api/companies/" \o p("uuid").s,
                 Assigned(Entries(Rest(params, {"uuid"}))),
                 <<>>)
          [] name = "delete_company" ->   \* 417-422
             grinfiRequest("DELETE", "/leads/api/companies/" \o p("uuid").s,
                 JUndef,
                 <<>>)
          [] name = "lookup_companies" ->   \* 424-429
             grinfiRequest("POST", "/leads/api/companies/lookup",
                 JObj(<<Member("lookups", p("lookups"))>>),
                 <<>>)
          [] name = "search_company_leads" ->   \* 431-436
             grinfiRequest("POST", "/leads/api/companies/leads",
                 JObj(<<Member("uuids", p("uuids"))>>),
                 <<>>)
          [] name = "enrich_companies" ->   \* 438-447
             grinfiRequest("POST", "/leads/api/companies/enrich",
                 Assigned(<<When(JTruthy(p("uuids")), "uuids", p("uuids")),
                 When(JTruthy(p("filter")), "filter", p("filter"))>>),
                 <<>>)
          [] name = "companies_mass_action" ->   \* 449-463
             grinfiRequest("PUT", "/leads/api/companies/mass-action",
                 Assigned(Members(JObj(<<Member("type", p("type")), Member("filter",
                 p("filter"))>>)) \o <<When(JTruthy(p("payload")), "payload", p("payload"))>>),
                 <<>>)
          [] name = "list_tags" ->   \* 469-472
             grinfiRequest("GET", "/leads/api/tags",
                 JUndef,
                 <<>>)
          [] name = "create_tag" ->   \* 474-482
             grinfiRequest("POST", "/leads/api/tags",
                 Assigned(Members(JObj(<<Member("name",
                 p("name"))>>)) \o <<When(JTruthy(p("color")), "color", p("color"))>>),
                 <<>>)
          [] name = "update_tag" ->   \* 484-493
             grinfiRequest("PUT", "/leads/api/tags/" \o p("uuid").s,
                 Assigned(Entries(Rest(params, {"uuid"}))),
                 <<>>)
          [] name = "delete_tag" ->   \* 495-498
             grinfiRequest("DELETE", "/leads/api/tags/" \o p("uuid").s,
                 JUndef,
                 <<>>)
          [] name = "get_tag_metrics" ->   \* 500-506
             grinfiRequest("POST", "/leads/api/tags/metrics",
                 JObj(<<Member("uuids", p("uuids")), Member("metrics", p("metrics"))>>),
                 <<>>)
          [] name = "list_pipeline_stages" ->   \* 512-521
             grinfiRequest("GET", "/leads/api/pipeline-stages",
                 JUndef,
                 AssignAll(<<>>, <<When(JTruthy(p("object")), "filter[object]",
                 Str(p("object"))), When(JTruthy(p("type")), "filter[type]", Str(p("type")))>>,
                 1))
          [] name = "create_pipeline_stage" ->   \* 523-531
             grinfiRequest("POST", "/leads/api/pipeline-stages",
                 params,
                 <<>>)
          [] name = "update_pipeline_stage" ->   \* 533-543
             grinfiRequest("PUT", "/leads/api/pipeline-stages/" \o p("uuid").s,
                 Assigned(Entries(Rest(params, {"uuid"}))),
                 <<>>)
          [] name = "delete_pipeline_stage" ->   \* 545-550
             grinfiRequest("DELETE", "/leads/api/pipeline-stages/" \o p("uuid").s,
                 JUndef,
                 <<>>)
          [] name = "list_custom_fields" ->   \* 556-562
             grinfiRequest("GET", "/leads/api/custom-fields",
                 JUndef,
                 buildQuery([limit |-> p("limit"), offset |-> p("offset"),
                 order_field |-> Str(p("order_field")), order_type |-> Str(p("order_type")),
                 search |-> Undefined], <<>>))
          [] name = "create_custom_field" ->   \* 564-571
             grinfiRequest("POST", "/leads/api/custom-fields",
                 params,
                 <<>>)
          [] name = "list_notes" ->   \* 591-597
             grinfiRequest("GET", "/leads/api/notes",
                 JUndef,
                 buildQuery([limit |-> p("limit"), offset |-> p("offset"),
                 order_field |-> Str(p("order_field")), order_type |-> Str(p("order_type")),
                 search |-> Undefined], <<>>))
          [] name = "get_note" ->   \* 599-602
             grinfiRequest("GET", "/leads/api/notes/" \o p("uuid").s,
                 JUndef,
                 <<>>)
          [] name = "create_note" ->   \* 604-611
             grinfiRequest("POST", "/leads/api/notes",
                 params,
                 <<>>)
          [] name = "update_note" ->   \* 613-619
             grinfiRequest("PUT", "/leads/api/notes/" \o p("uuid").s,
                 JObj(<<Member("note", p("note"))>>),
                 <<>>)
          [] name = "delete_note" ->   \* 621-624
             grinfiRequest("DELETE", "/leads/api/notes/" \o p("uuid").s,
                 JUndef,
                 <<>>)
          [] name = "list_activities" ->   \* 630-645
             grinfiRequest("GET", "/leads/api/activities",
                 JUndef,
                 AssignAll(<<>>, <<When(Given(p("limit")), "limit", p("limit")),
                 When(Given(p("offset")), "offset", p("offset")), When(JTruthy(p("order_field")),
                 "order_field", Str(p("order_field"))), When(JTruthy(p("order_type")),
                 "order_type", Str(p("order_type"))), When(JTruthy(p("object")),
                 "filter[object]", Str(p("object"))), When(JTruthy(p("filter")), "filter[q]",
                 Str(p("filter")))>>, 1))
          [] name = "create_activity" ->   \* 647-655
             grinfiRequest("POST", "/leads/api/activities",
                 params,
                 <<>>)
          [] name = "list_leads_blacklist" ->   \* 661-668
             grinfiRequest("GET", "/leads/api/blacklist/leads",
                 JUndef,
                 buildQuery([limit |-> p("limit"), offset |-> p("offset"),
                 order_field |-> Str(p("order_field")), order_type |-> Str(p("order_type")),
                 search |-> Str(p("search"))], <<>>))
          [] name = "add_to_leads_blacklist" ->   \* 670-679
             grinfiRequest("POST", "/leads/api/blacklist/leads",
                 Assigned(Entries(params)),
                 <<>>)
          [] name = "list_companies_blacklist" ->   \* 681-688
             grinfiRequest("GET", "/leads/api/blacklist/companies",
                 JUndef,
                 buildQuery([limit |-> p("limit"), offset |-> p("offset"),
                 order_field |-> Str(p("order_field")), order_type |-> Str(p("order_type")),
                 search |-> Str(p("search"))], <<>>))
          [] name = "add_to_companies_blacklist" ->   \* 690-698
             grinfiRequest("POST", "/leads/api/blacklist/companies",
                 Assigned(Entries(params)),
                 <<>>)
          [] name = "list_webhooks" ->   \* 704-707
             grinfiRequest("GET", "/leads/api/webhooks",
                 JUndef,
                 <<>>)
          [] name = "get_webhook" ->   \* 709-712
             grinfiRequest("GET", "/leads/api/webhooks/" \o p("uuid").s,
                 JUndef,
                 <<>>)
          [] name = "create_webhook" ->   \* 714-723
             grinfiRequest("POST", "/leads/api/webhooks",
                 params,
                 <<>>)
          [] name = "update_webhook" ->   \* 725-736
             grinfiRequest("PUT", "/leads/api/webhooks/" \o p("uuid").s,
                 Assigned(Entries(Rest(params, {"uuid"}))),
                 <<>>)
          [] name = "delete_webhook" ->   \* 738-741
             grinfiRequest("DELETE", "/leads/api/webhooks/" \o p("uuid").s,
                 JUndef,
                 <<>>)
          [] name = "test_webhook" ->   \* 743-751
             grinfiRequest("POST", "/leads/api/webhooks/test",
                 params,
                 <<>>)
          [] name = "get_webhook_metrics" ->   \* 753-759
             grinfiRequest("POST", "/leads/api/webhooks/metrics",
                 params,
                 <<>>)
          [] name = "list_attachments" ->   \* 765-771
             grinfiRequest("GET", "/leads/api/attachments",
                 JUndef,
                 buildQuery([limit |-> p("limit"), offset |-> p("offset"),
                 order_field |-> Str(p("order_field")), order_type |-> Str(p("order_type")),
                 search |-> Undefined], <<>>))
          [] name = "get_attachment" ->   \* 773-776
             grinfiRequest("GET", "/leads/api/attachments/" \o p("uuid").s,
                 JUndef,
                 <<>>)
          [] name = "delete_attachment" ->   \* 778-781
             grinfiRequest("DELETE", "/leads/api/attachments/" \o p("uuid").s,
                 JUndef,
                 <<>>)
          [] name = "list_enrichment_queue" ->   \* 787-793
             grinfiRequest("GET", "/leads/api/enrichment-queue",
                 JUndef,
                 buildQuery([limit |-> p("limit"), offset |-> p("offset"),
                 order_field |-> Str(p("order_field")), order_type |-> Str(p("order_type")),
                 search |-> Undefined], <<>>))
          [] name = "get_enrichment_metrics" ->   \* 795-798
             grinfiRequest("GET", "/leads/api/enrichment-queue/metrics",
                 JUndef,
                 <<>>)
          [] name = "list_automations" ->   \* 804-811
             grinfiRequest("GET", "/flows/api/flows",
                 JUndef,
                 buildQuery([limit |-> p("limit"), offset |-> p("offset"),
                 order_field |-> Str(p("order_field")), order_type |-> Str(p("order_type")),
                 search |-> Str(p("search"))], <<>>))
          [] name = "get_automation" ->   \* 813-818
             grinfiRequest("GET", "/flows/api/flows/" \o p("flow_uuid").s,
                 JUndef,
                 <<>>)
          [] name = "get_automation_metrics" ->   \* 820-825
             grinfiRequest("POST", "/flows/api/flows/metrics",
                 JObj(<<Member("uuids", p("uuids"))>>),
                 <<>>)
          [] name = "start_automation" ->   \* 827-830
             grinfiRequest("PUT", "/flows/api/flows/" \o p("flow_uuid").s \o "/start",
                 JUndef,
                 <<>>)
          [] name = "stop_automation" ->   \* 832-835
             grinfiRequest("PUT", "/flows/api/flows/" \o p("flow_uuid").s \o "/stop",
                 JUndef,
                 <<>>)
          [] name = "archive_automation" ->   \* 837-842
             grinfiRequest("PUT", "/flows/api/flows/" \o p("flow_uuid").s \o "/archive",
                 JUndef,
                 <<>>)
          [] name = "unarchive_automation" ->   \* 844-849
             grinfiRequest("PUT", "/flows/api/flows/" \o p("flow_uuid").s \o "/unarchive",
                 JUndef,
                 <<>>)
          [] name = "delete_automation" ->   \* 851-856
             grinfiRequest("DELETE", "/flows/api/flows/" \o p("flow_uuid").s,
                 JUndef,
                 <<>>)
          [] name = "clone_automation" ->   \* 858-867
             grinfiRequest("POST", "/flows/api/flows/" \o p("flow_uuid").s \o "/clone",
                 Assigned(Members(JObj(<<Member("name",
                 p("name"))>>)) \o <<When(JTruthy(p("flow_workspace_uuid")),
                 "flow_workspace_uuid", p("flow_workspace_uuid"))>>),
                 <<>>)
          [] name = "update_automation" ->   \* 869-880
             grinfiRequest("PUT", "/flows/api/flows/" \o p("flow_uuid").s,
                 Assigned(Entries(Rest(params, {"flow_uuid"}))),
                 <<>>)
          [] name = "add_contact_to_automation" ->   \* 882-887
             grinfiRequest("POST",
                           "/flows/api/flows/" \o p("flow_uuid").s \o "/leads/" \o p("lead_uuid").s,
                 JUndef,
                 <<>>)
          [] name = "add_new_contact_to_automation" ->   \* 889-913
             grinfiRequest("POST", "/flows/api/flows/" \o p("flow_uuid").s \o "/add-new-lead",
                 Assigned(Members(JObj(<<Member("lead", Rest(params, {"flow_uuid", "list_uuid",
                 "custom_fields", "update_lead_if_exists", "move_to_list", "flow_segment_id",
                 "skip_if_lead_exists"})), Member("list_uuid",
                 p("list_uuid"))>>)) \o <<When(JTruthy(p("custom_fields")), "custom_fields",
                 p("custom_fields")), When(Given(p("update_lead_if_exists")),
                 "update_lead_if_exists", p("update_lead_if_exists")),
                 When(Given(p("move_to_list")), "move_to_list", p("move_to_list")),
                 When(Given(p("flow_segment_id")), "flow_segment_id", p("flow_segment_id")),
                 When(Given(p("skip_if_lead_exists")), "skip_if_lead_exists",
                 p("skip_if_lead_exists"))>>),
                 <<>>)
          [] name = "cancel_contact_from_automations" ->   \* 915-920
             grinfiRequest("PUT", "/flows/api/flows/leads/" \o p("lead_uuid").s \o "/cancel",
                 JObj(<<Member("flow_uuids", p("flow_uuids"))>>),
                 <<>>)
          [] name = "cancel_contact_from_all_automations" ->   \* 922-925
             grinfiRequest("PUT", "/flows/api/flows/leads/" \o p("lead_uuid").s \o "/cancel-all",
                 JUndef,
                 <<>>)
          [] name = "continue_automation" ->   \* 927-930
             grinfiRequest("PUT", "/flows/api/tasks/continue-automation",
                 JObj(<<Member("lead_uuid", p("lead_uuid"))>>),
                 <<>>)
          [] name = "get_task" ->   \* 964-967
             grinfiRequest("GET", "/flows/api/tasks/" \o p("uuid").s,
                 JUndef,
                 <<>>)
          [] name = "list_tasks" ->   \* 969-989
             grinfiRequest("GET", "/flows/api/tasks",
                 JUndef,
                 buildQuery([limit |-> p("limit"), offset |-> p("offset"),
                 order_field |-> Str(p("order_field")), order_type |-> Str(p("order_type")),
                 search |-> Str(p("search")), automation |-> Str(p("automation")),
                 status |-> Str(p("status")), type |-> Str(p("type")),
                 lead_uuid |-> Str(p("lead_uuid")),
                 sender_profile_uuid |-> Str(p("sender_profile_uuid")),
                 flow_uuid |-> Str(p("flow_uuid")), assignee_uuid |-> Str(p("assignee_uuid")),
                 schedule_at_before |-> Str(p("schedule_at_before")),
                 schedule_at_after |-> Str(p("schedule_at_after"))], <<"automation", "status",
                 "type", "lead_uuid", "sender_profile_uuid", "flow_uuid", "assignee_uuid",
                 "schedule_at_before", "schedule_at_after">>))
          [] name = "complete_task" ->   \* 991-994
             grinfiRequest("PUT", "/flows/api/tasks/" \o p("uuid").s \o "/complete",
                 JUndef,
                 <<>>)
          [] name = "cancel_task" ->   \* 996-999
             grinfiRequest("PUT", "/flows/api/tasks/" \o p("uuid").s \o "/cancel",
                 JUndef,
                 <<>>)
          [] name = "fail_task" ->   \* 1001-1004
             grinfiRequest("PUT", "/flows/api/tasks/" \o p("uuid").s \o "/fail",
                 JUndef,
                 <<>>)
          [] name = "mass_cancel_tasks" ->   \* 1006-1011
             grinfiRequest("PUT", "/flows/api/tasks/mass-cancel",
                 JObj(<<Member("uuids", p("uuids"))>>),
                 <<>>)
          [] name = "mass_complete_tasks" ->   \* 1013-1018
             grinfiRequest("PUT", "/flows/api/tasks/mass-complete",
                 JObj(<<Member("uuids", p("uuids"))>>),
                 <<>>)
          [] name = "mass_retry_tasks" ->   \* 1020-1025
             grinfiRequest("PUT", "/flows/api/tasks/mass-retry",
                 JObj(<<Member("uuids", p("uuids"))>>),
                 <<>>)
          [] name = "mass_skip_tasks" ->   \* 1027-1032
             grinfiRequest("PUT", "/flows/api/tasks/mass-skip",
                 JObj(<<Member("uuids", p("uuids"))>>),
                 <<>>)
          [] name = "get_tasks_group_counts" ->   \* 1034-1050
             grinfiRequest("GET", "/flows/api/tasks/group-counts",
                 JUndef,
                 AssignAll(<<>>, <<When(JTruthy(p("automation")), "filter[automation]",
                 Str(p("automation"))), When(JTruthy(p("schedule_at_before")),
                 "filter[schedule_at_before]", Str(p("schedule_at_before"))),
                 When(JTruthy(p("schedule_at_after")), "filter[schedule_at_after]",
                 Str(p("schedule_at_after")))>>, 1))
          [] name = "get_tasks_schedule" ->   \* 1052-1055
             grinfiRequest("GET", "/flows/api/tasks/schedule",
                 JUndef,
                 <<>>)
          [] name = "list_linkedin_messages" ->   \* 1061-1077
             grinfiRequest("GET", "/flows/api/linkedin-messages",
                 JUndef,
                 buildQuery([limit |-> p("limit"), offset |-> p("offset"),
                 order_field |-> Str(p("order_field")), order_type |-> Str(p("order_type")),
                 search |-> Str(p("search")), lead_uuid |-> Str(p("lead_uuid")),
                 sender_profile_uuid |-> Str(p("sender_profile_uuid")),
                 linkedin_account_uuid |-> Str(p("linkedin_account_uuid")),
                 linkedin_conversation_uuid |-> Str(p("linkedin_conversation_uuid")),
                 status |-> Str(p("status")), type |-> Str(p("type")),
                 user_id |-> Str(p("user_id"))], <<"lead_uuid", "sender_profile_uuid",
                 "linkedin_account_uuid", "linkedin_conversation_uuid", "status", "type",
                 "user_id">>))
          [] name = "mark_conversation_as_read" ->   \* 1145-1153
             grinfiRequest("PUT", "/leads/api/leads/mass-action",
                 JObj(<<Member("type", JStr("contact_mark_read")), Member("filter",
                 JObj(<<Member("all", JBool(FALSE)), Member("ids", JArr(<<p("lead_uuid")>>)),
                 Member("excludeIds", JArr(<<>>))>>))>>),
                 <<>>)
          [] name = "send_linkedin_message" ->   \* 1155-1165
             grinfiRequest("POST", "/flows/api/linkedin-messages",
                 Assigned(Members(JObj(<<Member("sender_profile_uuid", p("sender_profile_uuid")),
                 Member("lead_uuid", p("lead_uuid")), Member("text",
                 p("text"))>>)) \o <<When(JTruthy(p("template_uuid")), "template_uuid",
                 p("template_uuid"))>>),
                 <<>>)
          [] name = "delete_linkedin_message" ->   \* 1167-1172
             grinfiRequest("DELETE", "/flows/api/linkedin-messages/" \o p("uuid").s,
                 JUndef,
                 <<>>)
          [] name = "retry_linkedin_message" ->   \* 1174-1179
             grinfiRequest("PUT", "/flows/api/linkedin-messages/" \o p("uuid").s \o "/retry",
                 JUndef,
                 <<>>)
          [] name = "get_email" ->   \* 1197-1202
             grinfiRequest("GET", "/emails/api/emails/" \o p("uuid").s,
                 JUndef,
                 <<>>)
          [] name = "send_email" ->   \* 1204-1219
             grinfiRequest("POST", "/emails/api/emails/send-email",
                 Assigned(Members(JObj(<<Member("sender_profile_uuid", p("sender_profile_uuid")),
                 Member("lead_uuid", p("lead_uuid")), Member("from_name", p("from_name")),
                 Member("from_email", p("from_email")), Member("to_name", p("to_name")),
                 Member("to_email", p("to_email")), Member("subject",
                 p("subject"))>>)) \o <<When(JTruthy(p("cc")), "cc", p("cc")),
                 When(JTruthy(p("bcc")), "bcc", p("bcc"))>>),
                 <<>>)
          [] name = "delete_email" ->   \* 1221-1224
             grinfiRequest("DELETE", "/emails/api/emails/" \o p("uuid").s,
                 JUndef,
                 <<>>)
          [] name = "get_email_body" ->   \* 1226-1231
             grinfiRequest("GET", "/emails/api/email-bodies/" \o p("uuid").s,
                 JUndef,
                 <<>>)
          [] name = "list_email_bodies" ->   \* 1233-1240
             grinfiRequest("GET", "/emails/api/email-bodies",
                 JUndef,
                 buildQuery([limit |-> p("limit"), offset |-> p("offset"),
                 order_field |-> Str(p("order_field")), order_type |-> Str(p("order_type")),
                 search |-> Str(p("search"))], <<>>))
          [] name = "get_email_thread" ->   \* 1242-1247
             grinfiRequest("GET",
                           "/emails/api/emails/" \o p("reply_to_email_uuid").s \o "/thread",
                 JUndef,
                 <<>>)
          [] name = "get_email_llm_thread" ->   \* 1249-1270
             grinfiRequest("POST", "/emails/api/emails/llm-thread",
                 Assigned(Members(JObj(<<Member("sender_profile_uuid", p("sender_profile_uuid")),
                 Member("lead_uuid", p("lead_uuid")), Member("lead_name",
                 p("lead_name"))>>)) \o <<When(JTruthy(p("limit")), "limit", p("limit")),
                 When(Given(p("sent_at_recency_in_days")), "sent_at_recency_in_days",
                 p("sent_at_recency_in_days"))>>),
                 <<>>)
          [] name = "get_latest_emails_by_leads" ->   \* 1272-1277
             grinfiRequest("POST", "/emails/api/emails/latest-by-leads",
                 JObj(<<Member("lead_uuids", p("lead_uuids"))>>),
                 <<>>)
          [] name = "list_mailboxes" ->   \* 1283-1290
             grinfiRequest("GET", "/emails/api/mailboxes",
                 JUndef,
                 buildQuery([limit |-> p("limit"), offset |-> p("offset"),
                 order_field |-> Str(p("order_field")), order_type |-> Str(p("order_type")),
                 search |-> Str(p("search"))], <<>>))
          [] name = "get_mailbox" ->   \* 1292-1297
             grinfiRequest("GET", "/emails/api/mailboxes/" \o p("uuid").s,
                 JUndef,
                 <<>>)
          [] name = "create_mailbox" ->   \* 1299-1310
             grinfiRequest("POST", "/emails/api/mailboxes",
                 params,
                 <<>>)
          [] name = "update_mailbox" ->   \* 1312-1325
             grinfiRequest("PUT", "/emails/api/mailboxes/" \o p("uuid").s,
                 Assigned(Entries(Rest(params, {"uuid"}))),
                 <<>>)
          [] name = "activate_mailbox" ->   \* 1338-1343
             grinfiRequest("PUT", "/emails/api/mailboxes/" \o p("uuid").s \o "/activate",
                 JUndef,
                 <<>>)
          [] name = "deactivate_mailbox" ->   \* 1345-1350
             grinfiRequest("PUT", "/emails/api/mailboxes/" \o p("uuid").s \o "/deactivate",
                 JUndef,
                 <<>>)
          [] name = "list_mailbox_errors" ->   \* 1352-1359
             grinfiRequest("GET", "/emails/api/mailbox-errors",
                 JUndef,
                 buildQuery([limit |-> p("limit"), offset |-> p("offset"),
                 order_field |-> Str(p("order_field")), order_type |-> Str(p("order_type")),
                 search |-> Str(p("search"))], <<>>))
          [] name = "list_custom_tracking_domains" ->   \* 1365-1371
             grinfiRequest("GET", "/emails/api/custom-tracking-domains",
                 JUndef,
                 buildQuery([limit |-> p("limit"), offset |-> p("offset"),
                 order_field |-> Str(p("order_field")), order_type |-> Str(p("order_type")),
                 search |-> Undefined], <<>>))
          [] name = "get_custom_tracking_domain" ->   \* 1373-1378
             grinfiRequest("GET", "/emails/api/custom-tracking-domains/" \o p("uuid").s,
                 JUndef,
                 <<>>)
          [] name = "create_custom_tracking_domain" ->   \* 1380-1385
             grinfiRequest("POST", "/emails/api/custom-tracking-domains",
                 JObj(<<Member("domain", p("domain"))>>),
                 <<>>)
          [] name = "list_sender_profiles" ->   \* 1391-1398
             grinfiRequest("GET", "/flows/api/sender-profiles",
                 JUndef,
                 buildQuery([limit |-> p("limit"), offset |-> p("offset"),
                 order_field |-> Str(p("order_field")), order_type |-> Str(p("order_type")),
                 search |-> Str(p("search"))], <<>>))
          [] name = "get_sender_profile" ->   \* 1400-1403
             grinfiRequest("GET", "/flows/api/sender-profiles/" \o p("uuid").s,
                 JUndef,
                 <<>>)
          [] name = "create_sender_profile" ->   \* 1405-1414
             grinfiRequest("POST", "/flows/api/sender-profiles",
                 Assigned(Members(JObj(<<Member("first_name", p("first_name")),
                 Member("last_name", p("last_name"))>>)) \o <<When(JTruthy(p("label")), "label",
                 p("label")), When(Given(p("assignee_user_id")), "assignee_user_id",
                 p("assignee_user_id"))>>),
                 <<>>)
          [] name = "update_sender_profile" ->   \* 1416-1427
             grinfiRequest("PUT", "/flows/api/sender-profiles/" \o p("uuid").s,
                 Assigned(Entries(Rest(params, {"uuid"}))),
                 <<>>)
          [] name = "delete_sender_profile" ->   \* 1429-1434
             grinfiRequest("DELETE", "/flows/api/sender-profiles/" \o p("uuid").s,
                 JUndef,
                 <<>>)
          [] name = "enable_sender_profile" ->   \* 1436-1441
             grinfiRequest("PUT", "/flows/api/sender-profiles/" \o p("uuid").s \o "/enable",
                 JUndef,
                 <<>>)
          [] name = "disable_sender_profile" ->   \* 1443-1448
             grinfiRequest("PUT", "/flows/api/sender-profiles/" \o p("uuid").s \o "/disable",
                 JUndef,
                 <<>>)
          [] name = "list_ai_agents" ->   \* 1454-1461
             grinfiRequest("GET", "/ai/api/agents",
                 JUndef,
                 buildQuery([limit |-> p("limit"), offset |-> p("offset"),
                 order_field |-> Str(p("order_field")), order_type |-> Str(p("order_type")),
                 search |-> Str(p("search"))], <<>>))
          [] name = "get_ai_agent" ->   \* 1463-1466
             grinfiRequest("GET", "/ai/api/agents/" \o p("uuid").s,
                 JUndef,
                 <<>>)
          [] name = "list_ai_templates" ->   \* 1472-1479
             grinfiRequest("GET", "/ai/api/templates",
                 JUndef,
                 buildQuery([limit |-> p("limit"), offset |-> p("offset"),
                 order_field |-> Str(p("order_field")), order_type |-> Str(p("order_type")),
                 search |-> Str(p("search"))], <<>>))
          [] name = "get_ai_template" ->   \* 1481-1484
             grinfiRequest("GET", "/ai/api/templates/" \o p("uuid").s,
                 JUndef,
                 <<>>)
          [] name = "create_ai_template" ->   \* 1486-1496
             grinfiRequest("POST", "/ai/api/templates",
                 params,
                 <<>>)
          [] name = "render_ai_template" ->   \* 1498-1506
             grinfiRequest("POST", "/ai/api/templates/" \o p("template_uuid").s \o "/render",
                 Assigned(<<When(JTruthy(p("variables")), "variables", p("variables"))>>),
                 <<>>)
          [] name = "list_ai_variables" ->   \* 1512-1519
             grinfiRequest("GET", "/ai/api/variables",
                 JUndef,
                 buildQuery([limit |-> p("limit"), offset |-> p("offset"),
                 order_field |-> Str(p("order_field")), order_type |-> Str(p("order_type")),
                 search |-> Str(p("search"))], <<>>))
          [] name = "ai_ask" ->   \* 1525-1533
             grinfiRequest("POST", "/ai/api/ask",
                 Assigned(Members(JObj(<<Member("question",
                 p("question"))>>)) \o <<When(JTruthy(p("context")), "context", p("context"))>>),
                 <<>>)
          [] name = "list_llms" ->   \* 1539-1542
             grinfiRequest("GET", "/ai/api/llms",
                 JUndef,
                 <<>>)
          [] name = "get_llm" ->   \* 1544-1547
             grinfiRequest("GET", "/ai/api/llms/" \o p("uuid").s,
                 JUndef,
                 <<>>)
          [] name = "create_llm" ->   \* 1549-1557
             grinfiRequest("POST", "/ai/api/llms",
                 params,
                 <<>>)
          [] name = "update_llm" ->   \* 1559-1568
             grinfiRequest("PUT", "/ai/api/llms/" \o p("uuid").s,
                 Assigned(Entries(Rest(params, {"uuid"}))),
                 <<>>)
          [] name = "delete_llm" ->   \* 1570-1573
             grinfiRequest("DELETE", "/ai/api/llms/" \o p("uuid").s,
                 JUndef,
                 <<>>)
          [] name = "generate_llm_response" ->   \* 1575-1588
             grinfiRequest("POST", "/ai/api/llms/" \o p("uuid").s \o "/generate",
                 Assigned(Members(JObj(<<Member("job_type", p("job_type")), Member("messages",
                 p("messages"))>>)) \o <<When(JTruthy(p("config")), "config", p("config"))>>),
                 <<>>)
          [] name = "get_llm_metrics" ->   \* 1590-1595
             grinfiRequest("POST", "/ai/api/llms/metrics",
                 JObj(<<Member("uuids", p("uuids"))>>),
                 <<>>)
          [] name = "list_llm_logs" ->   \* 1597-1603
             grinfiRequest("GET", "/ai/api/llm-logs",
                 JUndef,
                 buildQuery([limit |-> p("limit"), offset |-> p("offset"),
                 order_field |-> Str(p("order_field")), order_type |-> Str(p("order_type")),
                 search |-> Undefined], <<>>))
          [] name = "get_llm_log" ->   \* 1605-1608
             grinfiRequest("GET", "/ai/api/llm-logs/" \o p("uuid").s,
                 JUndef,
                 <<>>)

\* The tools of createMcpServer whose handler is in toolRequest.
ForwardingTools ==
    { "find_contact", "search_contacts", "delete_contact", "upsert_contact",
      "change_contact_pipeline_stage", "leads_mass_action", "update_list", "delete_list",
      "get_list_metrics", "list_companies", "get_company", "create_companies",
      "update_company", "delete_company", "lookup_companies", "search_company_leads",
      "enrich_companies", "companies_mass_action", "list_tags", "create_tag",
      "update_tag", "delete_tag", "get_tag_metrics", "list_pipeline_stages",
      "create_pipeline_stage", "update_pipeline_stage", "delete_pipeline_stage",
      "list_custom_fields", "create_custom_field", "list_notes", "get_note",
      "create_note", "update_note", "delete_note", "list_activities", "create_activity",
      "list_leads_blacklist", "add_to_leads_blacklist", "list_companies_blacklist",
      "add_to_companies_blacklist", "list_webhooks", "get_webhook", "create_webhook",
      "update_webhook", "delete_webhook", "test_webhook", "get_webhook_metrics",
      "list_attachments", "get_attachment", "delete_attachment", "list_enrichment_queue",
      "get_enrichment_metrics", "list_automations", "get_automation",
      "get_automation_metrics", "start_automation", "stop_automation",
      "archive_automation", "unarchive_automation", "delete_automation",
      "clone_automation", "update_automation", "add_contact_to_automation",
      "add_new_contact_to_automation", "cancel_contact_from_automations",
      "cancel_contact_from_all_automations", "continue_automation", "get_task",
      "list_tasks", "complete_task", "cancel_task", "fail_task", "mass_cancel_tasks",
      "mass_complete_tasks", "mass_retry_tasks", "mass_skip_tasks",
      "get_tasks_group_counts", "get_tasks_schedule", "list_linkedin_messages",
      "mark_conversation_as_read", "send_linkedin_message", "delete_linkedin_message",
      "retry_linkedin_message", "get_email", "send_email", "delete_email",
      "get_email_body", "list_email_bodies", "get_email_thread", "get_email_llm_thread",
      "get_latest_emails_by_leads", "list_mailboxes", "get_mailbox", "create_mailbox",
      "update_mailbox", "activate_mailbox", "deactivate_mailbox", "list_mailbox_errors",
      "list_custom_tracking_domains", "get_custom_tracking_domain",
      "create_custom_tracking_domain", "list_sender_profiles", "get_sender_profile",
      "create_sender_profile", "update_sender_profile", "delete_sender_profile",
      "enable_sender_profile", "disable_sender_profile", "list_ai_agents", "get_ai_agent",
      "list_ai_templates", "get_ai_template", "create_ai_template", "render_ai_template",
      "list_ai_variables", "ai_ask", "list_llms", "get_llm", "create_llm", "update_llm",
      "delete_llm", "generate_llm_response", "get_llm_metrics", "list_llm_logs",
      "get_llm_log" }

ToolNames ==
    ForwardingTools
    \cup {"get_list", "get_contact", "create_list", "list_lists", "list_emails",
          "delete_mailbox", "get_unread_conversations", "update_contact",
          "upsert_custom_field_value", "create_task"}

\* The handler of a forwarding tool up to its await.
toolHandler(st, name, request) ==
    Call(WithTool(st, [NoTool EXCEPT !.name = name, !.pc = "call"]),
         request.method, request.path, request.body, request.query)

\* The second createMcpServer (the server of the bearer variant) and the
\* stdio server register 27 of the tools.  Their handlers are those of the
\* first but for the query of three list tools, which is built in place:
\* every parameter but limit and offset is tested for truthiness.
CopyTools ==
    {"find_contact", "search_contacts", "delete_contact", "upsert_contact",
     "list_automations", "start_automation", "stop_automation",
     "add_contact_to_automation", "add_new_contact_to_automation",
     "cancel_contact_from_automations", "cancel_contact_from_all_automations",
     "continue_automation", "list_linkedin_messages", "send_linkedin_message",
     "mark_conversation_as_read", "send_email", "list_sender_profiles",
     "get_sender_profile", "create_sender_profile"}

toolRequestCopy(name, params) ==
    LET p(k) == Get(params, k)
        grinfiRequest(method, path, body, queryParams) ==
            [method |-> method, path |-> path, body |-> body, query |-> queryParams]
        basic == <<When(Given(p("limit")), "limit", p("limit")),
                   When(Given(p("offset")), "offset", p("offset")),
                   When(JTruthy(p("order_field")), "order_field", Str(p("order_field"))),
                   When(JTruthy(p("order_type")), "order_type", Str(p("order_type"))),
                   When(JTruthy(p("search")), "filter[q]", Str(p("search")))>>
        filter(key) == When(JTruthy(p(key)), "filter[" \o key \o "]", Str(p(key)))
    IN  CASE name = "list_automations" ->
             grinfiRequest("GET", "/flows/api/flows", JUndef, AssignAll(<<>>, basic, 1))
          [] name = "list_sender_profiles" ->
             grinfiRequest("GET", "/flows/api/sender-profiles", JUndef,
                           AssignAll(<<>>, basic, 1))
          [] name = "list_linkedin_messages" ->
             grinfiRequest("GET", "/flows/api/linkedin-messages", JUndef,
                           AssignAll(<<>>,
                                     basic \o <<filter("lead_uuid"), filter("sender_profile_uuid"),
                                                filter("linkedin_account_uuid"),
                                                filter("linkedin_conversation_uuid"),
                                                filter("status"), filter("type"),
                                                filter("user_id")>>, 1))
          [] OTHER -> toolRequest(name, params)

\* The tools that hand their result to jsonResult(result, true).
EnrichingTools ==
    {"get_contact", "update_contact", "find_contact", "search_contacts", "upsert_contact",
     "search_company_leads"}

\* The handler resumes when the call it awaits has settled.
\* The mutant of Continue: a call that has not settled is given up.
ContinueTimesOut(st) ==
    LET c == Awaited(st)
    IN  IF ~c.done THEN Throw(st, NetworkError)
        ELSE CASE st.tool.pc = "call" ->
                     IF c.threw THEN Throw(st, c.error)
                     ELSE Return(st, c.value, st.tool.name \in EnrichingTools)
               [] st.tool.pc = "list" ->
                     IF c.threw THEN Throw(st, c.error) ELSE AfterList(st, c.value)
               [] st.tool.pc = "detail" -> AfterDetail(st)

\* The handler after the call it awaits was issued or has settled: it stays
\* suspended until the call is done, then runs on.
Continue(st) ==
    LET c == Awaited(st)
    IN  IF ~c.done THEN st
        ELSE CASE st.tool.pc = "call" ->
                     IF c.threw THEN Throw(st, c.error)
                     ELSE Return(st, c.value, st.tool.name \in EnrichingTools)
               [] st.tool.pc = "list" ->
                     IF c.threw THEN Throw(st, c.error) ELSE AfterList(st, c.value)
               [] st.tool.pc = "detail" -> AfterDetail(st)

----------------------------------------------------------------------------
(* Tool invocations and the upstream API.                                  *)

ApiKeys == {Undefined, Val(<<>>), Val(<<"k">>)}

LeadIds == {"A", "B"}

MsgTexts == <<"m1", "m2", "m3", "m4">>
MsgTimes == <<"t1", "t2", "t3", "t4">>
MsgConvs == <<"c1", "c2", "c3", "c4">>

\* The i-th message of a list, with the given value as its lead_uuid.
MessageAbout(i, leadUuid) ==
    JObj(<<Member("lead_uuid", leadUuid),
           Member("text", JStr(MsgTexts[i])),
           Member("created_at", JStr(MsgTimes[i])),
           Member("sender_profile_uuid", JStr("sp" \o ToString(i))),
           Member("linkedin_conversation_uuid", JStr(MsgConvs[i]))>>)

\* The i-th message of a list, about the given lead.
Message(i, lead) == MessageAbout(i, JStr(lead))

\* Message lists the upstream can answer with: newest first, up to MaxMsgs
\* messages, and more matching messages upstream than it returned.
ListValue(f) ==
    JObj(<<Member("data", JArr([i \in 1..Len(f) |-> Message(i, f[i])])),
           Member("total", JNum(Len(f) + 1))>>)

ListValues == { ListValue(f) : f \in UNION {[1..m -> LeadIds] : m \in 0..MaxMsgs} }

\* An object whose conversion to a string throws.
Unprintable == JObj(<<Member("toString", JNum(1))>>)

\* Answers to the list request that are JSON but no message list: null, an
\* object without data, data with a null element, data that is an object, data
\* that is a string, a message without lead_uuid, messages whose lead_uuid
\* is no plain id (an object that cannot be written into a path before a
\* plain id, a double dot, an id with a query), two messages whose lead_uuid
\* is the same array, two messages whose lead_uuid is a number and the
\* string that writes it.
OddListValues ==
    { JNull, JObj(<<>>),
      JObj(<<Member("data", JArr(<<JNull>>))>>),
      JObj(<<Member("data", JObj(<<>>))>>),
      JObj(<<Member("data", JStr("ab"))>>),
      JObj(<<Member("data", JArr(<<JObj(<<Member("text", JStr("m1"))>>)>>))>> ),
      JObj(<<Member("data", JArr(<<JObj(<<Member("lead_uuid", Unprintable),
                                          Member("text", JStr("m1"))>>),
                                   Message(2, "A")>>))>>),
      JObj(<<Member("data", JArr(<<Message(1, ".."), Message(2, "A?x=1")>>))>>),
      JObj(<<Member("data", JArr(<<MessageAbout(1, JArr(<<JStr("A")>>)),
                                   MessageAbout(2, JArr(<<JStr("A")>>))>>))>>),
      JObj(<<Member("data", JArr(<<MessageAbout(1, JNum(1)), Message(2, "1")>>))>>) }

Count(c) == JObj(<<Member("count", c), Member("channel", JStr("linkedin"))>>)

Lead(members) == JObj(<<Member("lead", JObj(members))>>)

\* Contact details: a name and up to MaxCounts unread counters of 0 or 1.
LeadValues ==
    { Lead(<<Member("name", JStr("n")),
             Member("unread_counts", JArr([i \in 1..Len(cs) |-> Count(JNum(cs[i]))]))>>) :
        cs \in UNION {[1..m -> {0, 1}] : m \in 0..MaxCounts} }

\* Details that are JSON but not of that shape: no name, no unread_counts,
\* lead null, no lead, null, unread_counts a string, a null counter before or
\* after a positive one, a counter without count, a count that is a string
\* (of a number, of none, of a number just above half the least positive
\* double), a count whose comparison throws before a positive one.
OddLeadValues ==
    { Lead(<<Member("unread_counts", JArr(<<Count(JNum(1))>>))>>),
      Lead(<<Member("name", JStr("n"))>>),
      JObj(<<Member("lead", JNull)>>),
      JObj(<<>>),
      JNull,
      Lead(<<Member("name", JStr("n")), Member("unread_counts", JStr("x"))>>),
      Lead(<<Member("name", JStr("n")), Member("unread_counts", JArr(<<JNull, Count(JNum(1))>>))>>),
      Lead(<<Member("name", JStr("n")), Member("unread_counts", JArr(<<Count(JNum(1)), JNull>>))>>),
      Lead(<<Member("name", JStr("n")), Member("unread_counts", JArr(<<Count(JStr("5"))>>))>>),
      Lead(<<Member("name", JStr("n")), Member("unread_counts", JArr(<<Count(JStr("abc"))>>))>>),
      Lead(<<Member("name", JStr("n")),
             Member("unread_counts",
                    JArr(<<Count(JStr("2.4703282292062327208828439643411068618252990131e-324"))>>))>>),
      Lead(<<Member("name", JStr("n")),
             Member("unread_counts", JArr(<<Count(Unprintable), Count(JNum(1))>>))>>),
      Lead(<<Member("name", JStr("n")),
             Member("unread_counts", JArr(<<JObj(<<Member("channel", JStr("email"))>>)>>))>>) }

\* Answers to get_list and create_list.
OtherValues ==
    { JObj(<<Member("uuid", JStr("u1")), Member("name", JStr("n"))>>),
      JObj(<<Member("1", JNum(2)), Member("b", JNum(1))>>),
      JArr(<<JNum(1), JStr("x")>>), JNull, JNum(0), JBool(FALSE), JStr("ok") }

\* Answers that hold contacts: one under lead, a page of them under data
\* (nested and flat), one at top level, with and without uuid, linkedin
\* and name, and one whose linkedin cannot be converted to a string.
ContactValues ==
    { JObj(<<Member("lead", JObj(<<Member("uuid", JStr("u1")), Member("name", JStr("n")),
                                   Member("linkedin", JStr("john"))>>)),
             Member("markers", JArr(<<>>))>>),
      JObj(<<Member("lead", JObj(<<Member("name", JStr("n"))>>))>>),
      JObj(<<Member("data", JArr(<<
                 JObj(<<Member("lead", JObj(<<Member("uuid", JStr("u1"))>>))>>),
                 JObj(<<Member("uuid", JStr("u2")), Member("linkedin", JStr("ann"))>>),
                 JNull>>)),
             Member("total", JNum(2))>>),
      JObj(<<Member("uuid", JStr("u1")), Member("name", JStr("n")),
             Member("linkedin", JNull)>>),
      JObj(<<Member("uuid", JStr("u1")), Member("linkedin", JStr("john"))>>),
      JObj(<<Member("lead", JObj(<<Member("_linkedin_url", JStr("z")),
                                   Member("linkedin", JStr("john"))>>))>>),
      JObj(<<Member("uuid", JStr("u1")), Member("name", JStr("n")),
             Member("linkedin", Unprintable)>>) }

\* Response texts that are no JSON document: empty, a page, a truncated
\* object, a trailing comma, a document followed by more text.
InvalidTexts ==
    { <<>>, <<W("<html>")>>, <<P("{"), S("a"), P(":")>>,
      <<P("["), N(1), P(","), P("]")>>, <<P("{"), P("}"), W("x")>> }

HttpResp(status, text, src) ==
    [kind |-> "http", status |-> status, text |-> text, src |-> src]

\* A 2xx answer that carries the serialization of one of the values, or a
\* text that is no JSON; a 204; an error status with an empty, a JSON or
\* another body.
Responses(values) ==
    { HttpResp(200, Stringify(v), v) : v \in values }
    \cup { HttpResp(200, x, JUndef) : x \in InvalidTexts }
    \cup { HttpResp(201, Stringify(JObj(<<>>)), JObj(<<>>)),
           HttpResp(204, <<>>, JUndef),
           HttpResp(204, <<W("<html>")>>, JUndef),
           HttpResp(204, Stringify(JObj(<<Member("uuid", JStr("u1"))>>)),
                    JObj(<<Member("uuid", JStr("u1"))>>)),
           HttpResp(404, <<W("<html>")>>, JUndef),
           HttpResp(401, <<>>, JUndef),
           HttpResp(500, Stringify(JObj(<<Member("error", JStr("boom"))>>)),
                    JObj(<<Member("error", JStr("boom"))>>)) }

\* What the upstream may answer to a request: any status and any body; the
\* values a body decodes to are the message lists and the contacts for the
\* requests of get_unread_conversations, the values with and without a
\* contact's fields for the tools that enrich, and the values without them for
\* the tools that return the answer as it is.
ResponsesTo(name, req) ==
    IF name = "get_unread_conversations"
    THEN IF req.path = MessagesPath THEN Responses(ListValues \cup OddListValues)
         ELSE Responses(LeadValues \cup OddLeadValues)
    ELSE IF name \in ForwardingTools \ EnrichingTools THEN Responses(OtherValues)
    ELSE Responses(OtherValues \cup ContactValues)

\* process.env.GRINFI_API_KEY is set, changed or removed while the server runs
\* (the server itself never writes it; the variable is the process's, and the
\* step makes the moment it is read observable).
SetEnv(k) ==
    /\ apiKey # k
    /\ apiKey' = k
    /\ UNCHANGED <<httpVars, tool, net, log, outcome, others, enriched, query>>

Fresh == [tool |-> NoTool, net |-> << >>, log |-> << >>, outcome |-> NoOutcome]

\* A handler from its entry to its first await, which in every handler is on
\* its first grinfiRequest call and stands in no try block: the handler is
\* suspended there, or the call threw before it fetched and the handler
\* rejects with what it threw.
ToFirstAwait(st) == IF ~Awaited(st).done THEN st ELSE Throw(st, Awaited(st).error)

\* No handler called last is followed: none was called, or the result of
\* the last one went out.
Quiet == tool.pc = "idle"

\* The tools of the handlers that are pending.
PendingTools ==
    (IF tool.pc \in {"idle", "done"} THEN {} ELSE {tool.name})
    \cup { others[h].tool.name : h \in DOMAIN others }

\* The server takes a call of the tool name.  A call comes at any time but
\* between the end of a handler and the sending of its result, which is one
\* turn of the event loop; calls that come while a handler is pending are
\* followed for the tools of overlapping.
Taken(name, overlapping) ==
    \/ Quiet /\ others = << >>
    \/ tool.pc # "done" /\ ({name} \cup PendingTools) \subseteq overlapping

\* A handler ran to its first await or to its end.  The server takes a call
\* while handlers of earlier calls are pending: the handler called last is the
\* one followed in tool, net, log and outcome, and one that is pending when
\* the next call comes is followed in others.
Start(st) ==
    IF Quiet THEN Commit(st)
    ELSE /\ Len(others) < MaxOthers
         /\ others' = Append(others, Cur)
         /\ tool' = st.tool
         /\ net' = st.net
         /\ log' = st.log
         /\ outcome' = st.outcome

\* A tool is called: its handler runs to its first await, or to its end.
InvokeGetList(uuid) ==
    /\ Start(ToFirstAwait(get_list(Fresh, [uuid |-> uuid])))
    /\ UNCHANGED <<httpVars, apiKey, enriched, query>>

InvokeGetContact(uuid) ==
    /\ Start(ToFirstAwait(get_contact(Fresh, [uuid |-> uuid])))
    /\ UNCHANGED <<httpVars, apiKey, enriched, query>>

InvokeDeleteMailbox(reassign, to) ==
    /\ Start(ToFirstAwait(delete_mailbox(Fresh, [uuid |-> "u1",
                                               automation_reassign_mailboxes |-> reassign,
                                               automation_mailbox_to_reassign |-> to])))
    /\ UNCHANGED <<httpVars, apiKey, enriched, query>>

InvokeCreateList(name) ==
    /\ Start(ToFirstAwait(create_list(Fresh, [name |-> name])))
    /\ UNCHANGED <<httpVars, apiKey, enriched, query>>

InvokeUpdateContact(first_name, email) ==
    /\ Start(ToFirstAwait(update_contact(Fresh,
                  [uuid |-> "u1",
                   fields |-> <<Member("first_name", first_name), Member("last_name", JUndef),
                                Member("email", email)>>])))
    /\ UNCHANGED <<httpVars, apiKey, enriched, query>>

InvokeUpsertCustomFieldValue(value) ==
    /\ Start(ToFirstAwait(upsert_custom_field_value(Fresh,
                  [custom_field_uuid |-> "f1", object_type |-> "lead",
                   object_uuid |-> "u1", value |-> value])))
    /\ UNCHANGED <<httpVars, apiKey, enriched, query>>

InvokeCreateTask(type, timezone, note) ==
    /\ Start(ToFirstAwait(create_task(Fresh,
                  [lead_uuid |-> "u1", sender_profile_uuid |-> "sp", type |-> type,
                   text |-> "hi", schedule_at |-> "t1", timezone |-> timezone,
                   note |-> note])))
    /\ UNCHANGED <<httpVars, apiKey, enriched, query>>

InvokeGetUnreadConversations(limit, sender) ==
    /\ Start(ToFirstAwait(get_unread_conversations(Fresh,
                  [limit |-> limit, sender_profile_uuid |-> sender])))
    /\ UNCHANGED <<httpVars, apiKey, enriched, query>>

InvokeListLists(limit, search) ==
    /\ Start(ToFirstAwait(list_lists(Fresh,
                  [limit |-> limit, offset |-> JUndef, order_field |-> Undefined,
                   order_type |-> Val(<<"a", "s", "c">>), search |-> search])))
    /\ UNCHANGED <<httpVars, apiKey, enriched, query>>

InvokeListEmails(offset, status) ==
    /\ Start(ToFirstAwait(list_emails(Fresh,
                  [limit |-> JNum(25), offset |-> offset, order_field |-> Val(<<>>),
                   order_type |-> Undefined, search |-> Undefined,
                   lead_uuid |-> Val(<<"u", "1">>), sender_profile_uuid |-> Undefined,
                   status |-> status, type |-> Undefined])))
    /\ UNCHANGED <<httpVars, apiKey, enriched, query>>

\* A value of a type of a schema: a plain one, or the one of the type that
\* is falsy or empty.
RECURSIVE Sample(_, _)
Sample(type, plain) ==
    CASE type.z = "string" -> JStr(IF plain THEN "x" ELSE "")
      [] type.z = "number" -> JNum(IF plain THEN 7 ELSE 0)
      [] type.z = "boolean" -> JBool(plain)
      [] type.z = "enum" -> JStr(type.values[IF plain THEN 1 ELSE Len(type.values)])
      [] type.z = "array" -> JArr(IF plain THEN <<Sample(type.of, TRUE)>> ELSE <<>>)
      [] type.z = "record" -> JObj(IF plain THEN <<Member("a", JStr("v"))>> ELSE <<>>)
      [] type.z = "unknown" -> IF plain THEN JStr("v") ELSE JNull

\* The arguments of a call of a tool as its schema parsed them: the required
\* keys only, every key with a plain value, every key with a falsy value.
Arguments(name) ==
    LET object(schema, optional, plain) ==
            JObj([i \in DOMAIN schema |-> Member(schema[i].k, Sample(schema[i].type, plain))])
        chosen(schema, optional, plain) ==
            object(SelectSeq(schema, LAMBDA f : optional \/ ~f.optional), optional, plain)
        each(schema) ==
            {chosen(schema, FALSE, TRUE), chosen(schema, TRUE, TRUE),
             chosen(schema, TRUE, FALSE)}
    IN  each(toolSchema(name))

\* A forwarding tool is called.
InvokeTool(name, params) ==
    /\ Start(ToFirstAwait(toolHandler(Fresh, name, toolRequest(name, params))))
    /\ UNCHANGED <<httpVars, apiKey, enriched, query>>

\* A forwarding tool of the bearer or of the stdio server is called.
InvokeCopyTool(name, params) ==
    /\ Start(ToFirstAwait(toolHandler(Fresh, name, toolRequestCopy(name, params))))
    /\ UNCHANGED <<httpVars, apiKey, enriched, query>>

\* The result of the handler called last went out (the turn of the event
\* loop in which the handler ended sends it): the invocation is over.
Reply ==
    /\ tool.pc = "done"
    /\ tool' = NoTool
    /\ net' = << >>
    /\ log' = << >>
    /\ outcome' = NoOutcome
    /\ UNCHANGED <<httpVars, apiKey, others, enriched, query>>

\* The upstream answers the i-th request on the wire: `await fetch` resolves
\* with the status line and the headers.  After a 204 the call returns and the
\* handler runs on to its next await or its end; after another status the
\* call waits for the body.
Respond(i) ==
    /\ i \in DOMAIN net
    /\ \E resp \in ResponsesTo(tool.name, net[i].req) : Commit(Continue(Settle(Cur, i, resp)))
    /\ UNCHANGED <<httpVars, apiKey, enriched, query>>

\* The i-th request fails on the network: fetch rejects.
NetFail(i) ==
    /\ i \in DOMAIN net
    /\ Commit(Continue(Settle(Cur, i, [NoResp EXCEPT !.kind = "neterr"])))
    /\ UNCHANGED <<httpVars, apiKey, enriched, query>>

\* The body of the response to call c has arrived: `await response.text()`
\* resolves, the call returns or throws and the handler runs on to its next
\* await or its end.
Body(c) ==
    /\ c \in DOMAIN log
    /\ log[c].reading # <<>>
    /\ \E resp \in ResponsesTo(tool.name, log[c].reading[1]) :
          /\ resp.status = log[c].resp.status
          /\ Commit(Continue(Read(Cur, c, resp)))
    /\ UNCHANGED <<httpVars, apiKey, enriched, query>>

\* The connection breaks while the body of the response to call c is read:
\* `await response.text()` rejects.
BodyFail(c) ==
    /\ c \in DOMAIN log
    /\ log[c].reading # <<>>
    /\ Commit(Continue(ReadFails(Cur, c)))
    /\ UNCHANGED <<httpVars, apiKey, enriched, query>>

\* What one settled await makes of a pending handler, before the handler
\* runs on.
Settlements(st) ==
    UNION { { Settle(st, i, resp) :
                resp \in ResponsesTo(st.tool.name, st.net[i].req)
                         \cup {[NoResp EXCEPT !.kind = "neterr"]} } :
            i \in DOMAIN st.net }
    \cup UNION { { Read(st, c, resp) :
                     resp \in { r \in ResponsesTo(st.tool.name, st.log[c].reading[1]) :
                                  r.status = st.log[c].resp.status } }
                 \cup {ReadFails(st, c)} :
                 c \in { d \in DOMAIN st.log : st.log[d].reading # <<>> } }

\* An await of the h-th of the other pending handlers settles; the handler
\* runs on, and is followed no longer when it has returned or thrown.
OtherSettles(h) ==
    /\ h \in DOMAIN others
    /\ \E s \in Settlements(others[h]) :
          \E st \in {Continue(s)} :
              others' = IF st.tool.pc = "done" THEN RemoveAt(others, h)
                        ELSE [others EXCEPT ![h] = st]
    /\ UNCHANGED <<httpVars, apiKey, tool, net, log, outcome, enriched, query>>

Limits == {JUndef, JNum(0), JNum(2), JNum(1000), JNum(1001), JNum(5000)}
Senders == {Undefined, Val(<<>>), Val(<<"s", "p">>)}

ToolInit ==
    /\ apiKey \in ApiKeys
    /\ ToolIdle
    /\ variant = "path"
    /\ mcpKey = Val(<<"a">>)
    /\ listening = TRUE
    /\ sessions = << >>
    /\ transports = << >>
    /\ nServers = 0
    /\ inflight = << >>
    /\ last = NoLast

\* The steps of the tool server: a tool is called, an await of a pending
\* handler settles, a result goes out, GRINFI_API_KEY changes.
Serve(overlapping) ==
    \/ \E k \in ApiKeys : SetEnv(k)
    \/ Taken("get_list", overlapping)
          /\ \E uuid \in {"u1", "..", "a?b=1"} : InvokeGetList(uuid)
    \/ Taken("get_contact", overlapping)
          /\ \E uuid \in {"u1"} : InvokeGetContact(uuid)
    \/ Taken("create_list", overlapping)
          /\ \E name \in {"n"} : InvokeCreateList(name)
    \/ Taken("list_lists", overlapping)
          /\ \E limit \in {JUndef, JNum(0)}, search \in {Undefined, Val(<<>>), Val(<<"j", "o">>)} :
                InvokeListLists(limit, search)
    \/ Taken("list_emails", overlapping)
          /\ \E offset \in {JUndef, JNum(0)}, status \in {Undefined, Val(<<>>), Val(<<"n", "e", "w">>)} :
                InvokeListEmails(offset, status)
    \/ Taken("delete_mailbox", overlapping)
          /\ \E reassign \in BOOLEAN, to \in {JUndef, JStr(""), JStr("m2")} :
                InvokeDeleteMailbox(reassign, to)
    \/ Taken("get_unread_conversations", overlapping)
          /\ \E limit \in Limits, sender \in Senders :
                InvokeGetUnreadConversations(limit, sender)
    \/ Taken("update_contact", overlapping)
          /\ \E first_name \in {JUndef, JStr("F")}, email \in {JUndef, JStr("e")} :
                InvokeUpdateContact(first_name, email)
    \/ Taken("upsert_custom_field_value", overlapping)
          /\ \E value \in {JUndef, JNull, JStr("v"), JNum(0)} :
                InvokeUpsertCustomFieldValue(value)
    \/ Taken("create_task", overlapping)
          /\ \E type \in {JUndef, JStr("linkedin_send_inmail")},
                timezone \in {JUndef, JStr("CET")}, note \in {JUndef, JStr("n")} :
                InvokeCreateTask(type, timezone, note)
    \/ \E name \in ForwardingTools :
          /\ Taken(name, overlapping)
          /\ \E params \in Arguments(name) : InvokeTool(name, params)
    \/ \E name \in CopyTools :
          /\ Taken(name, overlapping)
          /\ \E params \in Arguments(name) : InvokeCopyTool(name, params)
    \/ \E i \in DOMAIN net : Respond(i)
    \/ \E i \in DOMAIN net : NetFail(i)
    \/ \E c \in DOMAIN log : Body(c)
    \/ \E c \in DOMAIN log : BodyFail(c)
    \/ \E h \in DOMAIN others : OtherSettles(h)
    \/ Reply

\* The tool server: every tool may be called while handlers are pending.
ToolNext == Serve(ToolNames)

\* The tools whose calls are followed while a handler is pending.
OverlapTools ==
    {"get_list", "get_contact", "create_list", "list_lists", "delete_contact"}

\* The tool server with the overlapping calls of OverlapTools.
SpecTool == ToolInit /\ [][Serve(OverlapTools)]_vars

\* The tools whose completion is followed: one with a single upstream call
\* and the one that loops over the contacts, called with its defaults.
AnsweredNext ==
    \/ Quiet /\ \E uuid \in {"u1"} : InvokeGetList(uuid)
    \/ Quiet /\ \E limit \in {JUndef}, sender \in {Undefined} :
                   InvokeGetUnreadConversations(limit, sender)
    \/ \E i \in DOMAIN net : NetFail(i)
    \/ \E i \in DOMAIN net : Respond(i)
    \/ \E c \in DOMAIN log : BodyFail(c)
    \/ \E c \in DOMAIN log : Body(c)
    \/ Reply

\* A step in which an await of the invocation settles: the response of a call
\* advances (its status arrives, or its body, or the call fails).
Settles ==
    \E c \in DOMAIN log :
        /\ c \in DOMAIN log'
        /\ log[c].resp.kind \in {"none", "head"}
        /\ log'[c].resp # log[c].resp

\* The upstream answers every request, or the connection fails: a fetch that
\* is on the wire settles, and so does the reading of a body.  This is weak
\* fairness of the settling steps (Respond, NetFail, Body, BodyFail) written
\* out: one of them is enabled exactly when an await is pending, so either
\* no await is pending again and again, or a settling step is taken again and
\* again.
SpecToolAnswered ==
    /\ ToolInit
    /\ [][AnsweredNext]_vars
    /\ ([]<>(Len(net) = 0 /\ \A c \in DOMAIN log : log[c].reading = << >>)
          \/ []<><<Settles>>_vars)

----------------------------------------------------------------------------
(* enrichResult as a function of its argument.                             *)

\* The arguments of enrichResult. Contacts come with and without uuid (a
\* string, a number, the falsy 0), linkedin (a handle, the empty string),
\* name, and a member that already bears the name of a derived field; an
\* undefined choice leaves the key out. A contact stands at top level, under
\* lead, in a page under data (flat, nested, after a null), beside a uuid, in
\* an array; a uuid or a linkedin cannot be converted to a string; the other
\* values are no objects or hold no contact.
EnrichInputs ==
    LET RECURSIVE MemberLists(_)
        MemberLists(choices) ==
            IF choices = <<>> THEN { <<>> }
            ELSE { (IF v = JUndef THEN <<>> ELSE <<Member(choices[1].k, v)>>) \o rest :
                     v \in choices[1].vs, rest \in MemberLists(Tail(choices)) }
        LeadObjects ==
            { JObj(o) : o \in MemberLists(<<
                [k |-> "uuid", vs |-> {JUndef, JStr("u1"), JNum(7), JNum(0)}],
                [k |-> "_linkedin_url", vs |-> {JUndef, JStr("z")}],
                [k |-> "name", vs |-> {JUndef, JStr("n")}],
                [k |-> "linkedin", vs |-> {JUndef, JStr("john"), JStr("")}]>>) }
    IN  LeadObjects
        \cup { JObj(<<Member("lead", l), Member("markers", JArr(<<>>))>>) : l \in LeadObjects }
        \cup { JObj(<<Member("data", JArr(<<JNull, l>>)), Member("total", JNum(1))>>) :
                 l \in LeadObjects }
        \cup { JObj(<<Member("data", JArr(<<JObj(<<Member("lead", l)>>)>>))>>) :
                 l \in LeadObjects }
        \cup { JObj(<<Member("uuid", JStr("u2")), Member("lead", l)>>) : l \in LeadObjects }
        \cup { JArr(<<l>>) : l \in LeadObjects }
        \cup { JObj(<<Member("uuid", Unprintable), Member("name", JStr("n"))>>),
               JObj(<<Member("uuid", JStr("u1")), Member("name", JStr("n")),
                      Member("linkedin", Unprintable)>>),
               JObj(<<Member("uuid", JStr("u1")), Member("linkedin", Unprintable)>>),
               JObj(<<Member("data", JArr(<<JObj(<<Member("uuid", JStr("u1"))>>),
                                            JObj(<<Member("uuid", Unprintable)>>),
                                            JObj(<<Member("uuid", JStr("u2"))>>)>>))>>) }
        \cup { JNull, JNum(1), JStr("x"), JBool(TRUE), JObj(<<>>), JArr(<<>>),
               JObj(<<Member("lead", JStr("u1"))>>),
               JObj(<<Member("lead", JArr(<<JStr("u1")>>))>>),
               JObj(<<Member("data", JObj(<<Member("uuid", JStr("u1"))>>))>>),
               JObj(<<Member("data", JArr(<<JNum(1), JStr("u1"), JArr(<<>>)>>))>>) }

\* enrichResult is applied to the value that came out of it; when it throws
\* there is no such value, and the value it was working on stays as far as
\* it got.
ApplyEnrich ==
    /\ enriched.applied < MaxApply
    /\ ~enriched.threw
    /\ LET applied(r) == [enriched EXCEPT !.previous = enriched.current,
                                          !.current = r.v,
                                          !.applied = @ + 1,
                                          !.threw = r.threw]
       IN  enriched' = applied(enrichResult(enriched.current))
    /\ UNCHANGED <<httpVars, toolVars, query>>

EnrichInit ==
    /\ enriched \in { [NoEnrich EXCEPT !.original = v, !.previous = v, !.current = v] :
                      v \in EnrichInputs }
    /\ query = NoQuery
    /\ apiKey = Val(<<"k">>)
    /\ tool = NoTool
    /\ net = << >>
    /\ log = << >>
    /\ outcome = NoOutcome
    /\ others = << >>
    /\ variant = "path"
    /\ mcpKey = Val(<<"a">>)
    /\ listening = TRUE
    /\ sessions = << >>
    /\ transports = << >>
    /\ nServers = 0
    /\ inflight = << >>
    /\ last = NoLast

EnrichNext == ApplyEnrich

SpecEnrich == EnrichInit /\ [][EnrichNext]_vars

----------------------------------------------------------------------------
(* buildQuery as a function of its arguments.                              *)

\* buildQuery is called.
ApplyBuildQuery ==
    /\ ~query.applied
    /\ query' = [query EXCEPT !.result = buildQuery(query.params, query.filterFields),
                              !.applied = TRUE]
    /\ UNCHANGED <<httpVars, toolVars, enriched>>

\* The arguments of the call: what the schemas of the list tools let through
\* (numbers, strings and enum members, each optional), with the filter fields
\* of a tool that has some and of a tool that has none.
QueryInit ==
    /\ query \in { [NoQuery EXCEPT !.params = p, !.filterFields = f] :
                     p \in [limit : {JUndef, JNum(0), JNum(25)},
                            offset : {JUndef, JNum(0)},
                            order_field : {Undefined, Val(<<>>), Val(<<"n">>)},
                            order_type : {Undefined, Val(<<"a", "s", "c">>)},
                            search : {Undefined, Val(<<>>), Val(<<"j", "o">>)},
                            status : {Undefined, Val(<<>>), Val(<<"n", "e", "w">>)},
                            type : {Undefined, Val(<<"t">>)}],
                     f \in {<<>>, <<"status", "type">>} }
    /\ enriched = NoEnrich
    /\ apiKey = Val(<<"k">>)
    /\ tool = NoTool
    /\ net = << >>
    /\ log = << >>
    /\ outcome = NoOutcome
    /\ others = << >>
    /\ variant = "path"
    /\ mcpKey = Val(<<"a">>)
    /\ listening = TRUE
    /\ sessions = << >>
    /\ transports = << >>
    /\ nServers = 0
    /\ inflight = << >>
    /\ last = NoLast

SpecQuery == QueryInit /\ [][ApplyBuildQuery]_vars

----------------------------------------------------------------------------
(* Properties of the HTTP binding.                                         *)

Busy == DOMAIN inflight

\* C1: with MCP_API_KEY configured, a request to the MCP path that does not
\* present the secret is answered 401 without any session-table operation and
\* without constructing a registry or transport, and no such request is ever
\* suspended inside the session code.
C1_UnauthorizedIs401 ==
    /\ (last.kind # "none" /\ Truthy(mcpKey) /\ last.onMcp /\ ~last.presents)
          => /\ last.kind = "resp"
             /\ last.status = 401
             /\ last.ops = {}
             /\ ~last.built
    /\ \A s \in Busy : inflight[s].presents

\* C1 witness: a 401 for a request that named a live session, which is still
\* in the table.
C1_Witness ==
    /\ last.status = 401
    /\ last.onMcp
    /\ ~last.presents
    /\ last.known

\* C2: once an authorized DELETE that carried a session id of the table has
\* been handled, the table no longer holds that id.
C2_DeleteRemovesEntry ==
    (last.kind = "resp" /\ last.method = "DELETE" /\ last.presents /\ last.known)
        => last.sid \notin DOMAIN sessions

\* C3: every table entry binds its id to the transport that generated the id
\* and to the registry connected to that transport; no two ids share a
\* transport or a registry, no two transports share a registry, and a request
\* dispatched on a known id is suspended in the transport bound to that id.
C3_SessionsIsolated ==
    /\ \A a \in DOMAIN sessions :
          /\ sessions[a].transport \in DOMAIN transports
          /\ transports[sessions[a].transport].sessionId = a
          /\ transports[sessions[a].transport].server = sessions[a].server
    /\ \A a, b \in DOMAIN sessions :
          a # b => /\ sessions[a].transport # sessions[b].transport
                   /\ sessions[a].server # sessions[b].server
    /\ \A t, u \in DOMAIN transports :
          t # u => transports[t].server # transports[u].server
    /\ \A s \in Busy :
          inflight[s].pc = "existing"
              => transports[inflight[s].tgt].sessionId = inflight[s].sid

\* C3 witness: two sessions in the table and a request dispatched to each.
C3_Witness ==
    /\ Cardinality(DOMAIN sessions) = 2
    /\ Len(inflight) = 2
    /\ \A s \in 1..2 : inflight[s].pc = "existing"
    /\ inflight[1].sid # inflight[2].sid

\* C4: a request whose handling raised a failure is answered with a 500, and
\* the listener keeps serving.
C4_FailureIs500 ==
    /\ last.failed => (last.kind = "resp" /\ last.status = 500)
    /\ listening


\* C12: every response to a DELETE that presents the secret and carries no
\* session id, or one that is not in the table, is 404 "Session not found";
\* the step that writes it leaves the session table, the transports and the
\* registries as they were, and the handler has built none.
C12_DeleteUnknownIs404 ==
    [][(/\ last' # last
        /\ last'.kind = "resp"
        /\ last'.method = "DELETE"
        /\ last'.onMcp /\ last'.presents
        /\ ~last'.known)
          => /\ last'.status = 404
             /\ last'.body = "Session not found"
             /\ last'.ops \subseteq {"has"}
             /\ ~last'.built
             /\ UNCHANGED <<sessions, transports, nServers>>]_vars

\* C12 witness: with a session in the table, an authorized DELETE carrying an
\* id that is not in it was answered 404 "Session not found".
C12_Witness ==
    /\ last.kind = "resp" /\ last.method = "DELETE"
    /\ last.presents /\ ~last.known
    /\ last.ops = {"has"}
    /\ last.status = 404 /\ last.body = "Session not found"
    /\ DOMAIN sessions # {}

\* C13: a request that is neither GET /health nor addressed to the MCP path
\* is answered 404 by a handler that has touched neither the session table nor
\* built anything.
C13_UnknownPathIs404 ==
    (last.kind # "none" /\ ~last.onMcp /\ ~last.health)
        => /\ last.kind = "resp"
           /\ last.status = 404
           /\ last.ops = {}
           /\ ~last.built

----------------------------------------------------------------------------
(* Properties of the forwarder and of get_unread_conversations.  They are  *)
(* stated over the record of the calls of an invocation (log), the answers *)
(* of the upstream recorded there, and the text the tool returned.         *)

Calls == DOMAIN log

\* get_unread_conversations returned a result: the value its text denotes.
UnreadReturned == tool.name = "get_unread_conversations" /\ outcome.kind = "result"
Result == JSONParse(outcome.text).v

\* The scanned messages: what the loop over data goes through.
Scanned ==
    LET d == IF log[1].value.t = "obj" THEN Get(log[1].value, "data") ELSE JUndef
    IN  IF d.t \in {"arr", "str"} THEN Iterated(d) ELSE <<>>

\* The values the scanned messages have as lead_uuid.
ScannedIds == { Get(Scanned[i], "lead_uuid") : i \in DOMAIN Scanned }

\* The i-th message is the first of its contact as a Map tells keys apart: no
\* earlier message has the same string, number, boolean, null or undefined
\* as its lead_uuid, or its lead_uuid is an object or an array (which is
\* the same as no other, whatever it holds).
Opens(scanned, i) ==
    \/ IsObject(Get(scanned[i], "lead_uuid"))
    \/ \A j \in 1..(i - 1) : Get(scanned[j], "lead_uuid") # Get(scanned[i], "lead_uuid")

\* The contacts of the scanned messages, each by the position of its first
\* message, in the order of the list.
Contacts ==
    SelectSeq([i \in DOMAIN Scanned |-> i], LAMBDA i : Opens(Scanned, i))

\* The contacts whose id can be written into the path of a request.
Fetchable ==
    SelectSeq(Contacts, LAMBDA i : ~TemplateStr(Get(Scanned[i], "lead_uuid")).threw)

\* The contacts of unread_conversations.
Conversations == Get(Result, "unread_conversations").a

\* The entry e of unread_conversations carries the message m: its text, its
\* time, its sender profile and its conversation.
Carries(e, m) ==
    /\ Get(e, "latest_message") = Get(m, "text")
    /\ Get(e, "latest_message_at") = Get(m, "created_at")
    /\ Get(e, "sender_profile_uuid") = Get(m, "sender_profile_uuid")
    /\ Get(e, "conversation_uuid") = Get(m, "linkedin_conversation_uuid")

\* The entry e of unread_conversations is the entry of the contact whose
\* first message is m.
Listed(e, m) == Get(e, "contact_uuid") = Get(m, "lead_uuid") /\ Carries(e, m)

\* The contact ids of unread_conversations, in their order.
ResultIds == [j \in DOMAIN Conversations |-> Get(Conversations[j], "contact_uuid")]

\* The detail calls of the invocation and the contact each is about.
DetailCalls == { c \in Calls : c > 1 }
LeadOf(c) == SubSeq(log[c].path, Len(LeadsPath) + 1, Len(log[c].path))

\* The first message of the contact the detail call c is about.
FirstOf(c) == Scanned[Fetchable[c - 1]]

\* The detail fetch failed: the call threw (upstream error, network, missing
\* credential), or what it returned is no detail record (null, or a body
\* that is no JSON).
DetailFailed(c) ==
    \/ log[c].threw
    \/ log[c].value = JNull
    \/ log[c].resp.src = JUndef

\* C5: while and after get_unread_conversations fetches details, the call
\* has not failed; once it has returned, it returned a result, one detail call
\* was made for every contact of the scanned messages whose id can be
\* written into the path of a request, in the order of the list (and went
\* out to the upstream whenever the credential was there), and no contact
\* whose detail fetch failed has an entry in the result.
C5_DetailFailureSkipped ==
    (tool.name = "get_unread_conversations" /\ DetailCalls # {})
        => /\ outcome.kind # "error"
           /\ tool.pc = "done"
                => /\ outcome.kind = "result"
                   /\ Len(log) = 1 + Len(Fetchable)
                   /\ LET skipped(conversations) ==
                              \A c \in DetailCalls :
                                  /\ LeadOf(c) = TemplateStr(Get(FirstOf(c), "lead_uuid")).s
                                  /\ ~log[c].absent => log[c].fetches = 1
                                  /\ DetailFailed(c)
                                        => \A j \in DOMAIN conversations :
                                               ~Listed(conversations[j], FirstOf(c))
                      IN  skipped(Conversations)

\* C5 witness: the first detail fetch met an upstream error, the second was
\* still made, its contact is in the result and the failed one is not.
C5_Witness ==
    /\ UnreadReturned
    /\ Len(log) = 3
    /\ log[2].threw /\ log[2].error.kind = "api"
    /\ log[3].fetches = 1
    /\ ResultIds = <<JStr(LeadOf(3))>>

\* The unread counters of a detail record; none when the record has no such array.
CountsOf(v) ==
    LET lead == IF v.t = "obj" THEN Get(v, "lead") ELSE JUndef
        u == IF lead.t = "obj" THEN Get(lead, "unread_counts") ELSE JUndef
    IN  IF u.t = "arr" THEN u.a ELSE <<>>

\* The count of the entry is greater than 0 as JavaScript compares: a number
\* greater than 0, true, or a string or an array that reads as such a number.
Positive(e) == e # JNull /\ GtZero(Get(e, "count")) = [threw |-> FALSE, v |-> TRUE]

\* The entry cannot be tested: it is null, or its count cannot be compared.
Untestable(e) == e = JNull \/ GtZero(Get(e, "count")).threw

HasPositive(v) == \E i \in DOMAIN CountsOf(v) : Positive(CountsOf(v)[i])

AllZero(v) ==
    /\ CountsOf(v) # <<>>
    /\ \A i \in DOMAIN CountsOf(v) : Get(CountsOf(v)[i], "count") = JNum(0)

\* An entry that cannot be tested stands before the first positive one.
UntestableBeforePositive(v) ==
    \E i \in DOMAIN CountsOf(v) :
        /\ Untestable(CountsOf(v)[i])
        /\ \A j \in 1..(i - 1) : ~Positive(CountsOf(v)[j])

\* The ids of the contacts of the scanned messages.
ContactIds == { Get(Scanned[Contacts[k]], "lead_uuid") : k \in DOMAIN Contacts }

\* C6 as stated: a contact of the scanned messages has an entry in
\* unread_conversations if and only if its detail fetch succeeded and its
\* unread_counts has an entry with count > 0.
C6_IncludedIffPositive ==
    UnreadReturned =>
        LET included(scanned, contacts, fetchable, conversations) ==
                \A k \in DOMAIN contacts :
                    (\E j \in DOMAIN conversations :
                         Listed(conversations[j], scanned[contacts[k]]))
                        <=> \E c \in DetailCalls :
                                /\ c - 1 \in DOMAIN fetchable
                                /\ fetchable[c - 1] = contacts[k]
                                /\ ~log[c].threw
                                /\ HasPositive(log[c].value)
        IN  included(Scanned, Contacts, Fetchable, Conversations)

\* C6 amended: a contact of the scanned messages has an entry in
\* unread_conversations if and only if its detail fetch succeeded,
\* unread_counts has an entry with count > 0 (as JavaScript compares: a
\* number, true, or a string or an array that reads as a number above 0),
\* and no entry that cannot be tested (null, or one whose count cannot be
\* compared) stands before the first such entry; every entry of
\* unread_conversations is the entry of a contact of the scanned messages;
\* and for contacts A (a positive entry) and B (entries all zero) the
\* result holds only A and total_unread is 1.
C6_IncludedIffPositiveInspected ==
    UnreadReturned =>
        LET included(result, scanned, contacts, fetchable, conversations) ==
                /\ \A j \in DOMAIN conversations :
                      \E k \in DOMAIN contacts :
                          Listed(conversations[j], scanned[contacts[k]])
                /\ Get(result, "total_unread") = JNum(Len(conversations))
                /\ \A k \in DOMAIN contacts :
                      (\E j \in DOMAIN conversations :
                           Listed(conversations[j], scanned[contacts[k]]))
                          <=> \E c \in DetailCalls :
                                  /\ c - 1 \in DOMAIN fetchable
                                  /\ fetchable[c - 1] = contacts[k]
                                  /\ ~log[c].threw
                                  /\ HasPositive(log[c].value)
                                  /\ ~UntestableBeforePositive(log[c].value)
                /\ (/\ ContactIds = {JStr("A"), JStr("B")}
                    /\ \A c \in DetailCalls :
                          /\ ~log[c].threw
                          /\ LeadOf(c) = "A" => HasPositive(log[c].value)
                                                /\ ~UntestableBeforePositive(log[c].value)
                          /\ LeadOf(c) = "B" => AllZero(log[c].value))
                      => /\ ResultIds = <<JStr("A")>>
                         /\ Get(result, "total_unread") = JNum(1)
        IN  included(Result, Scanned, Contacts, Fetchable, Conversations)

\* C6 witness: messages of A and B were scanned, A's detail has a positive
\* entry, B's entries are all zero, and the result holds A alone.
C6_Witness ==
    /\ UnreadReturned
    /\ ContactIds = {JStr("A"), JStr("B")}
    /\ Len(log) = 3
    /\ \A c \in DetailCalls :
          /\ ~log[c].threw
          /\ LeadOf(c) = "A" => HasPositive(log[c].value)
          /\ LeadOf(c) = "B" => AllZero(log[c].value)
    /\ ResultIds = <<JStr("A")>>
    /\ Get(Result, "total_unread") = JNum(1)

\* The calls the upstream has answered: status and body have arrived.
Answered == { c \in Calls : log[c].resp.kind = "http" }

\* The calls whose response broke off: the status arrived, the body did not.
CutOff == { c \in Calls : log[c].resp.kind = "cut" }

\* C7 as stated: a call whose response had a status outside 200..299 has
\* failed with the error that carries that status and the response text, and
\* has returned no value.
C7_ErrorCarriesStatusAndBody ==
    \A c \in Answered \cup CutOff :
        ~Ok(log[c].resp.status)
            => /\ log[c].done /\ log[c].threw
               /\ log[c].error.kind = "api"
               /\ log[c].error.status = log[c].resp.status
               /\ log[c].error.text = log[c].resp.text
               /\ log[c].value = JUndef

\* C7 amended: a call whose response had a status outside 200..299 has
\* returned no value; when the body arrived it has failed with the error that
\* carries that status and the response text as it came, and when the body
\* broke off it has failed with the error of the stream, whatever the status.
C7_ErrorCarriesStatusAndBodyRead ==
    /\ \A c \in Answered :
          ~Ok(log[c].resp.status)
              => /\ log[c].done /\ log[c].threw
                 /\ log[c].error.kind = "api"
                 /\ log[c].error.status = log[c].resp.status
                 /\ log[c].error.text = log[c].resp.text
                 /\ log[c].value = JUndef
    /\ \A c \in CutOff :
          /\ log[c].done /\ log[c].threw
          /\ log[c].error = StreamError
          /\ log[c].value = JUndef

\* C7 witness: the upstream answered 404 with a page, the call threw with
\* that status and text, and the tool call failed with that error.
C7_Witness ==
    /\ Len(log) = 1
    /\ log[1].resp.kind = "http" /\ log[1].resp.status = 404
    /\ log[1].resp.text # <<>>
    /\ log[1].threw /\ log[1].error.text = log[1].resp.text
    /\ outcome.kind = "error" /\ outcome.error = log[1].error

\* C8: a call has put at most one request on the wire; once the status of the
\* answer has arrived or the request has failed nothing of the call is on the
\* wire; once the body has arrived or broken off the call is over; and an
\* answer outside 200..299 has made it throw.
C8_AtMostOneRequest ==
    /\ \A c \in Calls :
          /\ log[c].fetches <= 1
          /\ log[c].resp.kind # "none" => \A i \in DOMAIN net : net[i].call # c
          /\ log[c].resp.kind \in {"neterr", "http", "cut"}
                => log[c].done /\ log[c].reading = << >>
          /\ log[c].resp.kind = "head" => ~log[c].done /\ Len(log[c].reading) = 1
          /\ (log[c].resp.kind = "http" /\ ~Ok(log[c].resp.status)) => log[c].threw
    /\ Len(net) <= 1

\* C8 witness: a call was answered 500 after its one request, it threw, nothing
\* is on the wire and the tool call is over.
C8_Witness ==
    /\ Len(log) = 1
    /\ log[1].resp.kind = "http" /\ log[1].resp.status = 500
    /\ log[1].fetches = 1 /\ log[1].threw
    /\ net = << >>
    /\ tool.pc = "done"

\* C9: a call made while GRINFI_API_KEY was unset or empty has failed with
\* the configuration error without a request; a call made while it was set
\* has put its request on the wire, whatever the key was at earlier calls;
\* and a request on the wire carries a non-empty key.
C9_MissingKeyFailsBeforeFetch ==
    /\ \A c \in Calls :
          IF log[c].absent
          THEN /\ log[c].done /\ log[c].threw
               /\ log[c].error = ConfigError
               /\ log[c].fetches = 0
               /\ log[c].resp.kind = "none"
          ELSE log[c].fetches >= 1
    /\ \A i \in DOMAIN net : Len(net[i].req.authorization) > Len(BearerPrefix)

\* C9 witness: in one invocation the list call and the first detail call went
\* out with the key, the key was removed while the detail was awaited, and the
\* next detail call failed with the configuration error and no request.
C9_Witness ==
    /\ Len(log) = 3
    /\ ~log[1].absent /\ log[1].fetches = 1
    /\ ~log[2].absent /\ log[2].fetches = 1
    /\ log[3].absent /\ log[3].error = ConfigError /\ log[3].fetches = 0
    /\ KeyAbsent

\* C10: a call answered with a status in 200..299 other than 204 has not
\* thrown; when the text is the serialization of a JSON value the call
\* returned that value, and when the text is no JSON document it returned
\* { rawResponse: text }.
C10_UnparseableBodyWrapped ==
    \A c \in Answered :
        (Ok(log[c].resp.status) /\ log[c].resp.status # 204)
            => /\ log[c].done /\ ~log[c].threw
               /\ log[c].value =
                     IF log[c].resp.src # JUndef THEN log[c].resp.src
                     ELSE JObj(<<Member("rawResponse", JText(log[c].resp.text))>>)

\* C10 witness: in one invocation the list call returned the parsed message
\* list and a detail call, answered 200 with a text that is no JSON, returned
\* the text wrapped.
C10_Witness ==
    /\ Len(log) >= 2
    /\ log[1].resp.status = 200 /\ log[1].resp.src # JUndef
    /\ log[1].value = log[1].resp.src
    /\ log[2].resp.kind = "http" /\ log[2].resp.status = 200
    /\ log[2].resp.src = JUndef /\ log[2].resp.text # <<>>
    /\ log[2].value = JObj(<<Member("rawResponse", JText(log[2].resp.text))>>)

\* C11: a call answered with status 204 has returned the object
\* { success: true, message: "Operation completed successfully (204 No
\* Content)" } and has not thrown, whether the response text is empty, a JSON
\* document or neither: the value depends on nothing of the text, and no call
\* reads the body of a 204.
C11_NoContentIsSynthetic ==
    /\ \A c \in Answered :
          log[c].resp.status = 204
              => /\ log[c].done /\ ~log[c].threw
                 /\ log[c].value =
                       JObj(<<Member("success", JBool(TRUE)),
                              Member("message",
                                     JStr("Operation completed successfully (204 No Content)"))>>)
    /\ \A c \in Calls : log[c].reading # << >> => log[c].resp.status # 204

\* C11 witness: a 204 came with a JSON document as its text, the call returned
\* the synthetic object, and the tool returned its serialization.
C11_Witness ==
    /\ Len(log) = 1
    /\ log[1].resp.kind = "http" /\ log[1].resp.status = 204
    /\ log[1].resp.src # JUndef
    /\ Get(log[1].value, "success") = JBool(TRUE)
    /\ log[1].value # log[1].resp.src
    /\ outcome.kind = "result" /\ outcome.text = Stringify(log[1].value)

\* The list call returned an object that holds no messages: data is an empty
\* array, null or missing.
NoMessages(v) ==
    /\ v.t = "obj"
    /\ Get(v, "data") \in {JUndef, JNull, JArr(<<>>)}

\* C14: when the message list call of get_unread_conversations has returned
\* an object without messages, the tool has returned the text of
\* { unread_conversations: [], total_unread: 0, note: "No inbox messages
\* found" }, and the list call is the only call of the invocation: no detail
\* request was made and none is on the wire.
C14_NoMessagesEmptyResult ==
    (/\ tool.name = "get_unread_conversations"
     /\ Len(log) >= 1
     /\ log[1].done /\ ~log[1].threw
     /\ NoMessages(log[1].value))
        => /\ tool.pc = "done"
           /\ outcome.kind = "result"
           /\ Get(Result, "unread_conversations") = JArr(<<>>)
           /\ Get(Result, "total_unread") = JNum(0)
           /\ Get(Result, "note") = JStr("No inbox messages found")
           /\ Len(Result.o) = 3
           /\ Len(log) = 1
           /\ net = << >>

\* C14 witness: the upstream answered the list request 200 with an empty data
\* array and the tool returned the empty result.
C14_Witness ==
    /\ tool.name = "get_unread_conversations" /\ tool.pc = "done"
    /\ Len(log) = 1
    /\ log[1].resp.kind = "http" /\ log[1].resp.status = 200
    /\ Get(log[1].value, "data") = JArr(<<>>)
    /\ outcome.kind = "result"
    /\ Get(Result, "total_unread") = JNum(0)

\* The number a string of decimal digits denotes, the string given by the
\* codes of its characters.
RECURSIVE DigitsValue(_)
DigitsValue(cs) ==
    IF cs = <<>> THEN 0
    ELSE 10 * DigitsValue(SubSeq(cs, 1, Len(cs) - 1))
         + (CHOOSE d \in 0..9 : CharCode(DigitChars[d + 1]) = cs[Len(cs)])

\* The values of the limit parameter of a request.
LimitsSent(req) ==
    { req.query[i].v.value :
        i \in { j \in DOMAIN req.query : req.query[j].k = Codes("limit") } }

\* C15: the message list request of get_unread_conversations carries exactly
\* one limit; it is 300 when no limit was requested and the smaller of the
\* requested limit and 1000 otherwise, so it is never above 1000.
C15_LimitCapped ==
    \A i \in DOMAIN net :
        (tool.name = "get_unread_conversations" /\ net[i].call = 1)
            => /\ net[i].req.path = MessagesPath
               /\ tool.limit.t \in {"undefined", "num"}
               /\ Cardinality(LimitsSent(net[i].req)) = 1
               /\ \A l \in LimitsSent(net[i].req) :
                     /\ \A j \in DOMAIN l : l[j] \in {CharCode(DigitChars[d]) : d \in 1..10}
                     /\ DigitsValue(l) <= 1000
                     /\ DigitsValue(l) =
                           IF tool.limit.t = "undefined" THEN 300
                           ELSE IF tool.limit.n <= 1000 THEN tool.limit.n
                           ELSE 1000

\* C15 witness: a limit of 5000 was requested and the request on the wire
\* carries limit=1000.
C15_Witness ==
    /\ tool.name = "get_unread_conversations"
    /\ tool.limit = JNum(5000)
    /\ Len(net) = 1
    /\ net[1].call = 1
    /\ LimitsSent(net[1].req) = {Codes("1000")}

\* The names of all members of a value, at any depth.
RECURSIVE AllKeys(_)
AllKeys(v) ==
    CASE v.t = "obj" ->
            { v.o[i].k : i \in DOMAIN v.o } \cup UNION { AllKeys(v.o[i].v) : i \in DOMAIN v.o }
      [] v.t = "arr" -> UNION { AllKeys(v.a[i]) : i \in DOMAIN v.a }
      [] OTHER -> {}

\* The names a request carries: the keys of its query string and the member
\* names of its body.
NamesSent(req) ==
    { req.query[i].k : i \in DOMAIN req.query }
    \cup (IF req.body.present
          THEN { Codes(n) : n \in AllKeys(JSONParse(req.body.value).v) } ELSE {})

\* C17: a request on the wire carries no optional parameter that the caller
\* left unset: its name is neither a key of the query string nor a member of
\* the body (so it is not sent as null either).
C17_UnsetNeverSent ==
    \A i \in DOMAIN net : \A n \in tool.unset : Codes(n) \notin NamesSent(net[i].req)

\* The tools of the model that make one forwarder call.
SingleCallTools == ToolNames \ {"get_unread_conversations"}

DerivedFields == {"_grinfi_contact_url", "_linkedin_url"}

\* A value without the members named like the derived fields, at any depth.
RECURSIVE WithoutDerived(_)
WithoutDerived(v) ==
    CASE v.t = "obj" ->
            LET kept == SelectSeq(v.o, LAMBDA m : m.k \notin DerivedFields)
            IN  JObj([i \in DOMAIN kept |-> Member(kept[i].k, WithoutDerived(kept[i].v))])
      [] v.t = "arr" -> JArr([i \in DOMAIN v.a |-> WithoutDerived(v.a[i])])
      [] OTHER -> v

\* C18 as stated: when the one call of a single-call tool was answered 200
\* with a JSON document, the tool has returned a text, whatever other calls
\* are pending; for the tools that do not enrich the text is that document
\* and denotes the value the upstream serialized; for the tools that enrich
\* the text denotes that value with nothing changed but members named
\* _grinfi_contact_url or _linkedin_url.
C18_ResultIsBodyVerbatim ==
    (/\ tool.name \in SingleCallTools
     /\ Len(log) = 1
     /\ log[1].resp.kind = "http" /\ log[1].resp.status = 200
     /\ log[1].resp.src # JUndef)
        => /\ tool.pc = "done"
           /\ outcome.kind = "result"
           /\ IF tool.name \in EnrichingTools
              THEN WithoutDerived(Result) = WithoutDerived(log[1].resp.src)
              ELSE /\ outcome.text = log[1].resp.text
                   /\ Result = log[1].resp.src

----------------------------------------------------------------------------
(* Properties of enrichResult.                                             *)

\* w holds everything v holds: each member of v, at any depth, is a member of
\* w under the same name, and with the same value when strict; when not
\* strict a member named like a derived field may have another value.
RECURSIVE Extends(_, _, _)
Extends(v, w, strict) ==
    CASE v.t = "obj" ->
            /\ w.t = "obj"
            /\ \A i \in DOMAIN v.o :
                  \E j \in DOMAIN w.o :
                      /\ w.o[j].k = v.o[i].k
                      /\ \/ ~strict /\ v.o[i].k \in DerivedFields
                         \/ Extends(v.o[i].v, w.o[j].v, strict)
      [] v.t = "arr" ->
            /\ w.t = "arr"
            /\ Len(w.a) = Len(v.a)
            /\ \A i \in DOMAIN v.a : Extends(v.a[i], w.a[i], strict)
      [] OTHER -> w = v

\* C19 as stated: enrichResult returns on every JSON value, a second
\* application changes nothing, and every field of the argument is in the
\* result with the value it had.
C19_EnrichIdempotentAdditive ==
    /\ ~enriched.threw
    /\ enriched.applied >= 2 => enriched.current = enriched.previous
    /\ enriched.applied >= 1 => Extends(enriched.original, enriched.current, TRUE)

\* C20 as stated: a value in which no member is named uuid comes out of
\* enrichResult as it went in.
C20_NoUuidUnchanged ==
    (enriched.applied >= 1 /\ "uuid" \notin AllKeys(enriched.original))
        => enriched.current = enriched.original

\* C20 amended: on a value in which no member is named uuid or linkedin
\* enrichResult returns, and the value comes out as it went in.
C20_NoUuidNoLinkedinUnchanged ==
    (enriched.applied >= 1 /\ AllKeys(enriched.original) \cap {"uuid", "linkedin"} = {})
        => /\ ~enriched.threw
           /\ enriched.current = enriched.original

\* C20 witness: an object with a name under lead and neither uuid nor
\* linkedin went through enrichResult and came out as it was.
C20_Witness ==
    /\ enriched.applied >= 1
    /\ enriched.original.t = "obj"
    /\ JTruthy(Get(enriched.original, "lead"))
    /\ JTruthy(Get(Get(enriched.original, "lead"), "name"))
    /\ AllKeys(enriched.original) \cap {"uuid", "linkedin"} = {}
    /\ enriched.current = enriched.original

----------------------------------------------------------------------------
(* Properties of buildQuery.                                               *)

QueryKeys == { query.result[i].k : i \in DOMAIN query.result }

QueryValue(key) ==
    LET i == CHOOSE j \in DOMAIN query.result : query.result[j].k = key
    IN  query.result[i].v

\* No key stands for a parameter that was left unset, and no key is there
\* twice.
NoUnsetKey ==
    /\ \A i, j \in DOMAIN query.result :
          query.result[i].k = query.result[j].k => i = j
    /\ "limit" \in QueryKeys => query.params.limit # JUndef
    /\ "offset" \in QueryKeys => query.params.offset # JUndef
    /\ "order_field" \in QueryKeys => query.params.order_field # Undefined
    /\ "order_type" \in QueryKeys => query.params.order_type # Undefined
    /\ "filter[q]" \in QueryKeys => query.params.search # Undefined
    /\ \A f \in {"status", "type"} :
          ("filter[" \o f \o "]") \in QueryKeys
              => /\ \E i \in DOMAIN query.filterFields : query.filterFields[i] = f
                 /\ query.params[f] # Undefined
    /\ QueryKeys \subseteq {"limit", "offset", "order_field", "order_type", "filter[q]",
                            "filter[status]", "filter[type]"}

\* C21 as stated: buildQuery emits no key for a parameter left unset, and a
\* given search is emitted under filter[q] and under no other key.
C21_UnsetDroppedSearchIsFilterQ ==
    query.applied
        => /\ NoUnsetKey
           /\ query.params.search # Undefined
                 => /\ "filter[q]" \in QueryKeys
                    /\ QueryValue("filter[q]") = query.params.search
                    /\ \A i \in DOMAIN query.result :
                          query.result[i].v = query.params.search
                              => query.result[i].k \in {"filter[q]", "order_field", "order_type",
                                                       "filter[status]", "filter[type]"}
                    /\ QueryKeys \cap {"search", "q"} = {}

\* C21 amended: buildQuery emits no key for a parameter left unset, and a
\* given search that is not the empty string is emitted under filter[q] and
\* under no other key; an empty search is not emitted.
C21_UnsetDroppedNonEmptySearchIsFilterQ ==
    query.applied
        => /\ NoUnsetKey
           /\ QueryKeys \cap {"search", "q"} = {}
           /\ IF Truthy(query.params.search)
              THEN /\ "filter[q]" \in QueryKeys
                   /\ QueryValue("filter[q]") = query.params.search
              ELSE "filter[q]" \notin QueryKeys

\* C21 witness: a call with a search and one filter given, limit and the other
\* filter unset, returned filter[q] and the one filter.
C21_Witness ==
    /\ query.applied
    /\ query.params.search = Val(<<"j", "o">>)
    /\ query.params.limit = JUndef
    /\ query.params.type = Undefined
    /\ QueryKeys = {"offset", "filter[q]", "filter[status]"}

----------------------------------------------------------------------------
(* Properties of the session table.                                        *)

\* The ids of the transports that were initialized and are not closed.
LiveSessions ==
    { transports[t].sessionId :
        t \in { u \in DOMAIN transports :
                  transports[u].sessionId # NoSid /\ ~transports[u].closed } }

\* The keys of the table are the sessions initialized and not closed, each
\* bound to the transport that bears its id.
TableIsLiveSessions ==
    /\ DOMAIN sessions = LiveSessions
    /\ \A s \in DOMAIN sessions :
          transports[sessions[s].transport].sessionId = s

\* C22: the keys of the session table are exactly the sessions initialized and
\* not yet closed, and an entry is gone once an authorized DELETE for its id
\* has been answered or a request to its session has ended in an error.
C22_TableTracksSessions ==
    /\ TableIsLiveSessions
    /\ (/\ last.kind = "resp" /\ last.presents /\ last.known
        /\ (last.method = "DELETE" \/ last.failed))
          => last.sid \notin DOMAIN sessions

----------------------------------------------------------------------------
(* Properties of the detail loop of get_unread_conversations.              *)

\* The detail requests on the wire.
DetailsInFlight == { i \in DOMAIN net : net[i].call \in DetailCalls }

\* The detail calls that have neither returned nor failed.
DetailsPending == { c \in DetailCalls : ~log[c].done }

\* C23: in get_unread_conversations at most one detail request is on the
\* wire and at most one detail call is pending, and when a detail call has
\* been issued the message list call and every earlier detail call have
\* returned or failed.
C23_DetailFetchesOneAtATime ==
    tool.name = "get_unread_conversations"
        => /\ Cardinality(DetailsInFlight) <= 1
           /\ Cardinality(DetailsPending) <= 1
           /\ \A c \in Calls : c < Len(log) => log[c].done

\* C23 witness: the detail request of the second of two contacts is on the
\* wire, the first contact's detail call has returned.
C23_Witness ==
    /\ tool.name = "get_unread_conversations"
    /\ tool.pc = "detail"
    /\ Len(tool.leads) >= 2
    /\ Len(log) = 3
    /\ log[2].done /\ ~log[2].threw
    /\ ~log[3].done
    /\ Cardinality(DetailsInFlight) = 1

\* The first of the scanned messages whose lead_uuid is that value.
FirstMessage(leadUuid) ==
    Scanned[CHOOSE i \in DOMAIN Scanned :
                /\ Get(Scanned[i], "lead_uuid") = leadUuid
                /\ \A j \in 1..(i - 1) : Get(Scanned[j], "lead_uuid") # leadUuid]

\* C25 as stated: in a result of get_unread_conversations no contact id
\* occurs twice, every contact of the result is a contact of the scanned
\* messages, and the latest_message, latest_message_at, sender_profile_uuid
\* and conversation_uuid of an entry are the text, created_at,
\* sender_profile_uuid and linkedin_conversation_uuid of the first scanned
\* message that has its contact id.
C25_FirstMessagePerContact ==
    UnreadReturned
        => LET first(conversations, scanned) ==
                   /\ \A i, j \in DOMAIN conversations :
                         Get(conversations[i], "contact_uuid")
                             = Get(conversations[j], "contact_uuid") => i = j
                   /\ \A i \in DOMAIN conversations :
                         /\ \E k \in DOMAIN scanned :
                               Get(scanned[k], "lead_uuid")
                                   = Get(conversations[i], "contact_uuid")
                         /\ Carries(conversations[i],
                                    FirstMessage(Get(conversations[i], "contact_uuid")))
           IN  first(Conversations, Scanned)

\* C25 amended: in a result of get_unread_conversations a contact id that is
\* a string, a number, a boolean, null or missing occurs once, and a contact
\* id that is an object or an array occurs at most once for each scanned
\* message that has it; every entry is the entry of a contact of the
\* scanned messages, the contacts told apart as the Map tells its keys
\* apart, and its latest_message, latest_message_at, sender_profile_uuid and
\* conversation_uuid are the text, created_at, sender_profile_uuid and
\* linkedin_conversation_uuid of the first message of that contact; no two
\* entries are the entry of the same message.
C25_FirstMessagePerMapKey ==
    UnreadReturned
        => LET first(conversations, scanned, contacts) ==
                   /\ \A i, j \in DOMAIN conversations :
                         (i # j /\ Get(conversations[i], "contact_uuid")
                                      = Get(conversations[j], "contact_uuid"))
                             => IsObject(Get(conversations[i], "contact_uuid"))
                   /\ \E f \in [DOMAIN conversations -> DOMAIN contacts] :
                         /\ \A i, j \in DOMAIN conversations : f[i] = f[j] => i = j
                         /\ \A i \in DOMAIN conversations :
                               Listed(conversations[i], scanned[contacts[f[i]]])
           IN  first(Conversations, Scanned, Contacts)

\* C25 witness: of three messages the first and the third are about contact
\* A, the second about B; both contacts are in the result and A's entry
\* carries the first message.
C25_Witness ==
    /\ UnreadReturned
    /\ Len(Scanned) = 3
    /\ Get(Scanned[1], "lead_uuid") = JStr("A")
    /\ Get(Scanned[2], "lead_uuid") = JStr("B")
    /\ Get(Scanned[3], "lead_uuid") = JStr("A")
    /\ Len(Conversations) = 2
    /\ Get(Conversations[1], "contact_uuid") = JStr("A")
    /\ Get(Conversations[1], "latest_message") = JStr("m1")

----------------------------------------------------------------------------
(* Completion of a tool invocation.                                        *)

\* The handler is suspended at an await.
Running == tool.pc \notin {"idle", "done"}

\* The awaits of grinfiRequest that are pending: fetches and body reads.
Pending == Len(net) + Cardinality({ c \in Calls : log[c].reading # << >> })

\* C26 as stated: get_unread_conversations returns its scan result after
\* 1 + D calls for the D distinct contact ids of the scanned messages.
C26_OneCallPerContact ==
    (UnreadReturned /\ Scanned # << >>) => Len(log) = 1 + Cardinality(ScannedIds)

\* C26 amended: a suspended invocation has exactly one await pending (a
\* request on the wire, or a body being read) and a finished one has none; an
\* invocation finishes only in a step in which the call it awaits settles;
\* get_unread_conversations returns its scan result after 1 + D calls, D
\* the number of contacts of the scanned messages whose id can be written
\* into the path of a request, the contacts told apart as the Map tells its
\* keys apart (an id that is an object or an array is a contact of its own
\* in every message that has it); and when every request is answered a
\* suspended invocation eventually returns or fails.
C26_CompletesIffAnswered ==
    /\ [](IF Running THEN Pending = 1 /\ ~log[Len(log)].done ELSE Pending = 0)
    /\ [][(Running /\ ~Running')
             => /\ Pending' = 0
                /\ log'[Len(log)].done
                /\ outcome'.kind \in {"result", "error"}]_vars
    /\ []((UnreadReturned /\ Scanned # << >>)
             => Len(log) = 1 + Len(Fetchable))
    /\ (Running ~> ~Running)

\* C26 witness: get_unread_conversations returned after three calls, the list
\* of two contacts and their two details, all answered by the upstream.
C26_Witness ==
    /\ UnreadReturned
    /\ ~Running
    /\ Len(Fetchable) = 2
    /\ Len(log) = 3
    /\ \A c \in Calls : log[c].resp.kind = "http"

----------------------------------------------------------------------------
(* Properties of delete_mailbox.                                           *)

\* C27: the body delete_mailbox builds (the automation_reassign_mailboxes
\* flag, and automation_mailbox_to_reassign when given) is the body of the
\* DELETE request that goes to the upstream.
C27_DeleteBodyTransmitted ==
    \A i \in DOMAIN net :
        (tool.name = "delete_mailbox" /\ net[i].req.method = "DELETE")
            => net[i].req.body = Val(Stringify(tool.body))

----------------------------------------------------------------------------
(* Properties of the authorization of a request.                           *)

\* The request passed the authorization check: it was handed on, or answered
\* by a branch behind the check.
Authorized ==
    /\ last.kind = "resp"
    /\ ~last.health
    /\ last.body \notin {"Unauthorized", "Not found"}

\* The word of letters and digits that follows /mcp/ in the URL is w, and it
\* is not part of a longer one.
PathWord(url, w) ==
    /\ StartsWith(url, McpSlash \o w)
    /\ \A j \in DOMAIN w : IsAlnum(w[j])
    /\ (Len(url) > Len(McpSlash) + Len(w)) => ~IsAlnum(url[Len(McpSlash) + Len(w) + 1])

\* C28: in the path-secret variant a request is authorized if and only if
\* its path is /mcp and its Authorization header is "Bearer " and the
\* secret, or its path begins with /mcp/ and the longest word of letters and
\* digits that follows is the secret; what comes after the word is ignored,
\* and a secret with another character in it is never matched by the path.
C28_AuthorizedIffSecretMatches ==
    variant = "path" =>
        /\ \A s \in DOMAIN inflight : inflight[s].presents
        /\ (last.kind # "none") => (Authorized <=> last.presents)
        /\ (last.kind # "none" /\ last.url \notin {<< >>, McpUrl})
              => (Authorized <=> (Truthy(mcpKey) /\ PathWord(last.url, mcpKey.value)))
        /\ (last.kind # "none" /\ StartsWith(last.url, McpSlash)
              /\ \E j \in DOMAIN mcpKey.value : ~IsAlnum(mcpKey.value[j]))
              => ~Authorized

\* C28 witness: the secret is "a" and /mcp/a- was authorized (the DELETE for no session
\* got its 404 behind the check); a request is with a transport.
C28_Witness ==
    /\ variant = "path"
    /\ mcpKey = Val(<<"a">>)
    /\ last.url = McpSlash \o <<"a", "-">>
    /\ Authorized
    /\ last.body = "Session not found"
    /\ inflight # << >>

----------------------------------------------------------------------------
(* Properties of the keys of the session table.                            *)

\* A request that carries an id the table does not hold, and is not a DELETE.
UnknownSession(r) == r.sid # NoSid /\ ~r.known /\ r.method # "DELETE"

\* C29: every key of the session table is an id the generator produced when
\* the session was initialized, new at that moment; an id a client sent that
\* the table does not hold never becomes a key, and an authorized request
\* other than a DELETE that carries such an id gets a registry and a
\* transport of its own, created for it, and no rejection by the handler.
C29_KeysAreGenerated ==
    /\ [](/\ DOMAIN sessions \subseteq Generated
          /\ ForgedSid \notin DOMAIN sessions
          /\ \A s \in DOMAIN inflight :
                UnknownSession(inflight[s])
                    => /\ inflight[s].built
                       /\ inflight[s].ops = {"has"}
                       /\ transports[inflight[s].tgt].sessionId = NoSid
                       /\ \A o \in DOMAIN inflight \ {s} :
                             /\ inflight[o].tgt # inflight[s].tgt
                             /\ transports[inflight[o].tgt].server
                                    # transports[inflight[s].tgt].server
          /\ (last.kind = "resp" /\ UnknownSession(last))
                => /\ last.built
                   /\ "get" \notin last.ops
                   /\ last.body # "Session not found"
                   /\ last.status \notin {401, 404})
    /\ [][\A s \in DOMAIN sessions' \ DOMAIN sessions :
              /\ s = randomUUID
              /\ s \notin Generated
              /\ \A o \in DOMAIN inflight : inflight[o].sid # s]_vars

\* C29 witness: a request with a made-up id was answered by a transport built for it, a
\* session that was opened has been closed and another one is open: its id is
\* not the one the closed session had.
C29_Witness ==
    /\ last.kind = "resp" /\ last.sid = ForgedSid /\ last.method = "POST"
    /\ last.built /\ last.status = 200 /\ "set" \in last.ops
    /\ DOMAIN sessions = {2}
    /\ \E t \in DOMAIN transports : transports[t].sessionId = 1

----------------------------------------------------------------------------
(* Properties of the result of get_unread_conversations.                   *)

\* The position of the first scanned message whose lead_uuid is that value.
FirstIndex(leadUuid) ==
    CHOOSE i \in DOMAIN Scanned :
        /\ Get(Scanned[i], "lead_uuid") = leadUuid
        /\ \A j \in 1..(i - 1) : Get(Scanned[j], "lead_uuid") # leadUuid

\* C30 as stated: in a result of get_unread_conversations built from a
\* non-empty message list, total_unread is the number of entries of
\* unread_conversations, scanned_messages is the number of messages the
\* list fetch returned, no contact id occurs twice, the entries are in the
\* order in which their contact ids first occur in the list (newest first),
\* and total_unread <= number of distinct contact ids <= scanned_messages.
C30_ResultCountsAndOrder ==
    (UnreadReturned /\ Scanned # << >>)
        => LET counted(result, conversations, scanned) ==
                   /\ Get(result, "total_unread") = JNum(Len(conversations))
                   /\ Get(result, "scanned_messages") = JNum(Len(scanned))
                   /\ \A i, j \in DOMAIN conversations :
                         i < j => /\ Get(conversations[i], "contact_uuid")
                                       # Get(conversations[j], "contact_uuid")
                                  /\ FirstIndex(Get(conversations[i], "contact_uuid"))
                                       < FirstIndex(Get(conversations[j], "contact_uuid"))
                   /\ Len(conversations) <= Cardinality(ScannedIds)
                   /\ Cardinality(ScannedIds) <= Len(scanned)
           IN  counted(Result, Conversations, Scanned)

\* C30 amended: in a result of get_unread_conversations built from a
\* non-empty message list, total_unread is the number of entries of
\* unread_conversations, scanned_messages is the number of messages the
\* list fetch returned, no contact id that is a string, a number, a boolean,
\* null or missing occurs twice, the entries are in the order of the first
\* messages of their contacts in the list (newest first), and total_unread
\* <= number of contacts <= scanned_messages, the contacts told apart as
\* the Map tells its keys apart (an id that is an object or an array is a
\* contact of its own in every message that has it).
C30_ResultCountsAndMapOrder ==
    (UnreadReturned /\ Scanned # << >>)
        => LET counted(result, conversations, scanned, contacts) ==
                   /\ Get(result, "total_unread") = JNum(Len(conversations))
                   /\ Get(result, "scanned_messages") = JNum(Len(scanned))
                   /\ \A i, j \in DOMAIN conversations :
                         (i < j /\ Get(conversations[i], "contact_uuid")
                                      = Get(conversations[j], "contact_uuid"))
                             => IsObject(Get(conversations[i], "contact_uuid"))
                   /\ \E f \in [DOMAIN conversations -> DOMAIN contacts] :
                         /\ \A i, j \in DOMAIN conversations : i < j => f[i] < f[j]
                         /\ \A i \in DOMAIN conversations :
                               Listed(conversations[i], scanned[contacts[f[i]]])
                   /\ Len(conversations) <= Len(contacts)
                   /\ Len(contacts) <= Len(scanned)
           IN  counted(Result, Conversations, Scanned, Contacts)

\* C30 witness: three messages about two contacts, B first and last; both
\* contacts have unread messages and B's entry comes first.
C30_Witness ==
    /\ UnreadReturned
    /\ Len(Scanned) = 3
    /\ Get(Scanned[1], "lead_uuid") = JStr("B")
    /\ Get(Scanned[2], "lead_uuid") = JStr("A")
    /\ Get(Scanned[3], "lead_uuid") = JStr("B")
    /\ Len(Conversations) = 2
    /\ Get(Conversations[1], "contact_uuid") = JStr("B")
    /\ Get(Result, "total_unread") = JNum(2)
    /\ Get(Result, "scanned_messages") = JNum(3)

====
